---- MODULE Spec2Model ----
(***************************************************************************)
(* Model of the segmented sample sequence of src/SoundSegment.cpp: a chain *)
(* of SegmentNode views over shared sample buffers, with read, write,      *)
(* deleteRange, insert and identify.                                       *)
(*                                                                         *)
(* A chain (the list reachable from `head` through `next`) is a sequence   *)
(* of node records; a node pointer is an index into the chain and nullptr  *)
(* is NULL.  A shared_ptr<vector<int16_t>> is an index into `bufs`; a      *)
(* buffer no node refers to is released (its slot becomes <<>>).           *)
(***************************************************************************)
EXTENDS Integers, Sequences, FiniteSets, TLC

\* ---------------------------------------------------------------- bounds
\* longest track, number of calls in a behaviour, width of size_t in bits
MaxLen == 4
MaxCalls == 3
SizeBits == 6

Tracks == {1, 2}
SizeMod == 2 ^ SizeBits

\* the sample arrays handed to write()
WriteData == {<<>>, <<1>>, <<2, 3>>, <<4, 5, 6>>}

\* position and length arguments, in and out of range
Args == 0..MaxLen

\* position and length arguments at both ends of the range of size_t
WrapArgs == {0, 1, 2, SizeMod - 2, SizeMod - 1}

\* longest track when whole tracks are inserted into one another, and the
\* positions and lengths of the writes and deletions in between
MaxGrowLen == 3 * MaxLen
GrowPositions == 0..2
GrowLengths == 1..2

\* the caller's vector before read(): fresh, or holding earlier data
DestVectors == {<<>>, [k \in 1..(MaxLen + 1) |-> 7]}

\* the targets and patterns handed to identify(): every array over IdSamples
\* up to the two lengths, and the pair of test_identify_ads
MaxTarget == 4
MaxPattern == 2
IdSamples == {-1, 0, 19, 20}
ExampleTarget == <<1, 2, 3, 10, 20, 30, 4, 5, 6, 10, 20, 30, 7, 8, 9>>
ExamplePattern == <<10, 20, 30>>

\* width of uint32_t in bits, scaled down with the arrays: an array of
\* 2^(Uint32Bits-1) samples is the shortest whose byte count does not fit
Uint32Bits == 4
Uint32Mod == 2 ^ Uint32Bits

\* the files of the WAV operations: one that can be created, and one in a
\* directory that does not exist, which can neither be created nor opened
Paths == {"a.wav", "nodir/b.wav"}
Creatable == {"a.wav"}

\* the sample arrays handed to WavIO::save
LongArray == [k \in 1..(2 ^ (Uint32Bits - 1)) |-> k]
WavArrays == {<<>>, <<-1>>, <<300, -2>>, LongArray}

RECURSIVE SeqsUpTo(_, _)
SeqsUpTo(S, n) ==
  IF n = 0 THEN {<<>>}
  ELSE LET shorter == SeqsUpTo(S, n - 1)
       IN shorter \cup {Append(q, x) : q \in {r \in shorter : Len(r) = n - 1}, x \in S}

IdentifyInputs ==
  (SeqsUpTo(IdSamples, MaxTarget) \X SeqsUpTo(IdSamples, MaxPattern))
    \cup {<<ExampleTarget, ExamplePattern>>}

\* ------------------------------------------------------- program constants
NULL == 0
CORRELATION_THRESHOLD_NUM == 95
CORRELATION_THRESHOLD_DEN == 100
WAV_HEADER_SIZE == 44
SAMPLE_RATE == 8000
BITS_PER_SAMPLE == 16
NUM_CHANNELS == 1
PCM_FORMAT == 1
PCM_HEADER_SIZE == 16
BYTES_PER_SAMPLE == 2

VARIABLES tracks, bufs, crashed, lastCall, calls, files
vars == <<tracks, bufs, crashed, lastCall, calls, files>>

\* ------------------------------------------------------------- primitives
\* size_t addition and subtraction
SizeAdd(a, b) == (a + b) % SizeMod
SizeSub(a, b) == (a - b) % SizeMod

Min(a, b) == IF a < b THEN a ELSE b

\* std::vector<int16_t>(n): n value-initialised (zero) samples
ZeroVector(n) == [k \in 1..n |-> 0]

\* std::vector::resize(n): keeps the first elements, zero-fills the new ones
Resize(vec, n) == [k \in 1..n |-> IF k <= Len(vec) THEN vec[k] ELSE 0]

\* memcpy / memmove of n samples from src[srcOff..] to dst[dstOff..]
\* (0-based offsets); the source range is read before anything is stored
MemCpy(dst, dstOff, src, srcOff, n) ==
  [k \in 1..Len(dst) |->
     IF k > dstOff /\ k <= dstOff + n THEN src[srcOff + (k - dstOff)] ELSE dst[k]]

\* std::make_shared<std::vector<int16_t>>: the slot the new buffer gets
FreeSlots(heap) == {b \in 1..Len(heap) : heap[b] = <<>>}
NewBufId(heap) ==
  IF FreeSlots(heap) = {} THEN Len(heap) + 1
  ELSE CHOOSE b \in FreeSlots(heap) : \A c \in FreeSlots(heap) : b <= c
AllocBuf(heap, content) ==
  IF FreeSlots(heap) = {} THEN Append(heap, content)
  ELSE [heap EXCEPT ![NewBufId(heap)] = content]

\* shared_ptr release: a buffer no node of any chain refers to is freed
Referenced(trks) ==
  UNION {{trks[t].head[i].data : i \in 1..Len(trks[t].head)} : t \in DOMAIN trks}
Release(heap, trks) ==
  LET live == Referenced(trks)
      top == IF live = {} THEN 0 ELSE CHOOSE b \in live : \A c \in live : c <= b
  IN [b \in 1..top |-> IF b \in live THEN heap[b] ELSE <<>>]

\* ------------------------------------------------------------ SegmentNode
\* variant: the constructor registers a live child on the new node
SegmentNodeRegistered(data_ptr, offset, len) ==
  [data |-> data_ptr, offset |-> offset, length |-> len, global_start |-> 0,
   is_buffer_owner |-> FALSE, parents |-> <<>>,
   children |-> <<[expired |-> FALSE]>>]

SegmentNode(data_ptr, offset, len) ==
  [data |-> data_ptr, offset |-> offset, length |-> len, global_start |-> 0,
   is_buffer_owner |-> FALSE, parents |-> <<>>, children |-> <<>>]

hasActiveChildren(node) ==
  \E c \in 1..Len(node.children) : ~node.children[c].expired

\* node->next and head, as chain indices
NextOf(chain, node) == IF node # NULL /\ node < Len(chain) THEN node + 1 ELSE NULL
HeadOf(chain) == IF Len(chain) > 0 THEN 1 ELSE NULL

\* ----------------------------------------------------------- SoundSegment
EmptyTrack == [head |-> <<>>, total_length |-> 0]

RECURSIVE updateLoop(_, _, _)
updateLoop(chain, current, global_pos) ==
  IF current = NULL THEN [head |-> chain, total_length |-> global_pos]
  ELSE updateLoop([chain EXCEPT ![current].global_start = global_pos],
                  NextOf(chain, current), global_pos + chain[current].length)

updateGlobalIndices(chain) == updateLoop(chain, HeadOf(chain), 0)

\* findLoop taking the position one past a segment's end as inside it
RECURSIVE findLoopInclusiveEnd(_, _, _)
findLoopInclusiveEnd(chain, current, pos) ==
  IF current = NULL THEN [node |-> NULL, local_offset |-> 0]
  ELSE IF pos >= chain[current].global_start
          /\ pos <= chain[current].global_start + chain[current].length
       THEN [node |-> current, local_offset |-> pos - chain[current].global_start]
       ELSE findLoopInclusiveEnd(chain, NextOf(chain, current), pos)

RECURSIVE findLoop(_, _, _)
findLoop(chain, current, pos) ==
  IF current = NULL THEN [node |-> NULL, local_offset |-> 0]
  ELSE IF pos >= chain[current].global_start
          /\ pos < chain[current].global_start + chain[current].length
       THEN [node |-> current, local_offset |-> pos - chain[current].global_start]
       ELSE findLoop(chain, NextOf(chain, current), pos)

findSegmentAt(trk, pos) == findLoop(trk.head, HeadOf(trk.head), pos)

\* splitNode whose right half starts at the offset of the left half
splitNodeSameOffset(chain, node, local_offset) ==
  IF node = NULL \/ local_offset >= chain[node].length
  THEN [chain |-> chain, right |-> NULL]
  ELSE LET right == [SegmentNode(chain[node].data, chain[node].offset,
                                 chain[node].length - local_offset)
                       EXCEPT !.global_start = chain[node].global_start + local_offset]
       IN [chain |-> SubSeq(chain, 1, node - 1)
                       \o <<[chain[node] EXCEPT !.length = local_offset], right>>
                       \o SubSeq(chain, node + 1, Len(chain)),
           right |-> node + 1]

\* splitNode that also splits at the very end of a segment
splitNodeLaxGuard(chain, node, local_offset) ==
  IF node = NULL \/ local_offset > chain[node].length
  THEN [chain |-> chain, right |-> NULL]
  ELSE LET right == [SegmentNode(chain[node].data, chain[node].offset + local_offset,
                                 chain[node].length - local_offset)
                       EXCEPT !.global_start = chain[node].global_start + local_offset]
       IN [chain |-> SubSeq(chain, 1, node - 1)
                       \o <<[chain[node] EXCEPT !.length = local_offset], right>>
                       \o SubSeq(chain, node + 1, Len(chain)),
           right |-> node + 1]

\* returns the chain after the split and the right node (NULL: nothing done)
splitNode(chain, node, local_offset) ==
  IF node = NULL \/ local_offset >= chain[node].length
  THEN [chain |-> chain, right |-> NULL]
  ELSE LET right == [SegmentNode(chain[node].data, chain[node].offset + local_offset,
                                 chain[node].length - local_offset)
                       EXCEPT !.global_start = chain[node].global_start + local_offset]
       IN [chain |-> SubSeq(chain, 1, node - 1)
                       \o <<[chain[node] EXCEPT !.length = local_offset], right>>
                       \o SubSeq(chain, node + 1, Len(chain)),
           right |-> node + 1]

\* readLoop reading from the start of the buffer instead of the node's offset
RECURSIVE readLoopNoOffset(_, _, _, _, _, _, _)
readLoopNoOffset(chain, heap, current, dest, samples_copied, start_pos, len) ==
  IF current = NULL \/ ~(samples_copied < len) THEN dest
  ELSE IF start_pos >= chain[current].global_start
          /\ start_pos < chain[current].global_start + chain[current].length
       THEN LET local_index == start_pos - chain[current].global_start
                samples_in_node == chain[current].length - local_index
                samples_remaining == len - samples_copied
                samples_to_copy == Min(samples_remaining, samples_in_node)
            IN readLoopNoOffset(chain, heap, NextOf(chain, current),
                        MemCpy(dest, samples_copied, heap[chain[current].data],
                               local_index, samples_to_copy),
                        samples_copied + samples_to_copy,
                        start_pos + samples_to_copy, len)
       ELSE readLoopNoOffset(chain, heap, NextOf(chain, current), dest,
                             samples_copied, start_pos, len)

\* read(int16_t* dest, start_pos, len): dest after the copies
RECURSIVE readLoop(_, _, _, _, _, _, _)
readLoop(chain, heap, current, dest, samples_copied, start_pos, len) ==
  IF current = NULL \/ ~(samples_copied < len) THEN dest
  ELSE IF start_pos >= chain[current].global_start
          /\ start_pos < chain[current].global_start + chain[current].length
       THEN LET local_index == start_pos - chain[current].global_start
                samples_in_node == chain[current].length - local_index
                samples_remaining == len - samples_copied
                samples_to_copy == Min(samples_remaining, samples_in_node)
            IN readLoop(chain, heap, NextOf(chain, current),
                        MemCpy(dest, samples_copied, heap[chain[current].data],
                               chain[current].offset + local_index, samples_to_copy),
                        samples_copied + samples_to_copy,
                        start_pos + samples_to_copy, len)
       ELSE readLoop(chain, heap, NextOf(chain, current), dest, samples_copied,
                     start_pos, len)

readRaw(trk, heap, dest, start_pos, len) ==
  readLoop(trk.head, heap, HeadOf(trk.head), dest, 0, start_pos, len)

\* read(std::vector<int16_t>& dest, start_pos, len)
read(trk, heap, dest, start_pos, len) ==
  readRaw(trk, heap, Resize(dest, len), start_pos, len)

getAllSamples(trk, heap) ==
  readRaw(trk, heap, ZeroVector(trk.total_length), 0, trk.total_length)

\* extendTrack sizing the new tail to end_pos instead of the gap
extendTrackFullSize(trk, heap, end_pos) ==
  IF HeadOf(trk.head) = NULL
  THEN LET first == [SegmentNode(NewBufId(heap), 0, end_pos)
                       EXCEPT !.is_buffer_owner = TRUE]
       IN [trk |-> updateGlobalIndices(<<first>>),
           heap |-> AllocBuf(heap, ZeroVector(end_pos))]
  ELSE LET tail == Len(trk.head)
           last_end == trk.head[tail].global_start + trk.head[tail].length
       IN IF last_end < end_pos
          THEN LET new_node == [SegmentNode(NewBufId(heap), 0, end_pos)
                                  EXCEPT !.global_start = last_end,
                                         !.is_buffer_owner = TRUE]
               IN [trk |-> updateGlobalIndices(Append(trk.head, new_node)),
                   heap |-> AllocBuf(heap, ZeroVector(end_pos))]
          ELSE [trk |-> updateGlobalIndices(trk.head), heap |-> heap]

\* extendTrack that leaves the owner flag of the new tail segment unset
extendTrackNotOwner(trk, heap, end_pos) ==
  IF HeadOf(trk.head) = NULL
  THEN LET first == [SegmentNode(NewBufId(heap), 0, end_pos)
                       EXCEPT !.is_buffer_owner = TRUE]
       IN [trk |-> updateGlobalIndices(<<first>>),
           heap |-> AllocBuf(heap, ZeroVector(end_pos))]
  ELSE LET tail == Len(trk.head)
           last_end == trk.head[tail].global_start + trk.head[tail].length
       IN IF last_end < end_pos
          THEN LET new_node_len == end_pos - last_end
                   new_node == [SegmentNode(NewBufId(heap), 0, new_node_len)
                                  EXCEPT !.global_start = last_end]
               IN [trk |-> updateGlobalIndices(Append(trk.head, new_node)),
                   heap |-> AllocBuf(heap, ZeroVector(new_node_len))]
          ELSE [trk |-> updateGlobalIndices(trk.head), heap |-> heap]

\* write(): "Extend track if necessary"
extendTrack(trk, heap, end_pos) ==
  IF HeadOf(trk.head) = NULL
  THEN LET first == [SegmentNode(NewBufId(heap), 0, end_pos)
                       EXCEPT !.is_buffer_owner = TRUE]
       IN [trk |-> updateGlobalIndices(<<first>>),
           heap |-> AllocBuf(heap, ZeroVector(end_pos))]
  ELSE LET tail == Len(trk.head)
           last_end == trk.head[tail].global_start + trk.head[tail].length
       IN IF last_end < end_pos
          THEN LET new_node_len == end_pos - last_end
                   new_node == [SegmentNode(NewBufId(heap), 0, new_node_len)
                                  EXCEPT !.global_start = last_end,
                                         !.is_buffer_owner = TRUE]
               IN [trk |-> updateGlobalIndices(Append(trk.head, new_node)),
                   heap |-> AllocBuf(heap, ZeroVector(new_node_len))]
          ELSE [trk |-> updateGlobalIndices(trk.head), heap |-> heap]

\* writeLoop copying to the start of each segment's window, without the
\* local offset of the write cursor in it
RECURSIVE writeLoopNoLocalOffset(_, _, _, _, _, _, _)
writeLoopNoLocalOffset(chain, heap, current, remaining, global_index, src_index, src) ==
  IF current = NULL \/ ~(remaining > 0) THEN heap
  ELSE IF global_index >= chain[current].global_start
          /\ global_index < chain[current].global_start + chain[current].length
       THEN LET local_offset == global_index - chain[current].global_start
                available == chain[current].length - local_offset
                to_write == Min(remaining, available)
                data == chain[current].data
            IN writeLoopNoLocalOffset(chain,
                         [heap EXCEPT ![data] =
                            MemCpy(heap[data], chain[current].offset,
                                   src, src_index, to_write)],
                         NextOf(chain, current), remaining - to_write,
                         global_index + to_write, src_index + to_write, src)
       ELSE writeLoopNoLocalOffset(chain, heap, NextOf(chain, current), remaining,
                      global_index, src_index, src)

\* write(): "Write data to appropriate segments"; the heap after the copies
RECURSIVE writeLoop(_, _, _, _, _, _, _)
writeLoop(chain, heap, current, remaining, global_index, src_index, src) ==
  IF current = NULL \/ ~(remaining > 0) THEN heap
  ELSE IF global_index >= chain[current].global_start
          /\ global_index < chain[current].global_start + chain[current].length
       THEN LET local_offset == global_index - chain[current].global_start
                available == chain[current].length - local_offset
                to_write == Min(remaining, available)
                data == chain[current].data
            IN writeLoop(chain,
                         [heap EXCEPT ![data] =
                            MemCpy(heap[data], chain[current].offset + local_offset,
                                   src, src_index, to_write)],
                         NextOf(chain, current), remaining - to_write,
                         global_index + to_write, src_index + to_write, src)
       ELSE writeLoop(chain, heap, NextOf(chain, current), remaining,
                      global_index, src_index, src)

\* write copying one sample too few
writeShort(trk, heap, src, pos) ==
  LET len == Len(src) IN
  IF len = 0 THEN [trk |-> trk, heap |-> heap]
  ELSE LET end_pos == SizeAdd(pos, len)
           ext == IF end_pos > trk.total_length
                  THEN extendTrack(trk, heap, end_pos)
                  ELSE [trk |-> trk, heap |-> heap]
       IN [trk |-> ext.trk,
           heap |-> writeLoop(ext.trk.head, ext.heap, HeadOf(ext.trk.head),
                              len - 1, pos, 0, src)]

\* write that extends only when pos itself lies past the end
writeExtendPastOnly(trk, heap, src, pos) ==
  LET len == Len(src) IN
  IF len = 0 THEN [trk |-> trk, heap |-> heap]
  ELSE LET end_pos == SizeAdd(pos, len)
           ext == IF pos > trk.total_length
                  THEN extendTrack(trk, heap, end_pos)
                  ELSE [trk |-> trk, heap |-> heap]
       IN [trk |-> ext.trk,
           heap |-> writeLoop(ext.trk.head, ext.heap, HeadOf(ext.trk.head),
                              len, pos, 0, src)]

write(trk, heap, src, pos) ==
  LET len == Len(src) IN
  IF len = 0 THEN [trk |-> trk, heap |-> heap]
  ELSE LET end_pos == SizeAdd(pos, len)
           ext == IF end_pos > trk.total_length
                  THEN extendTrack(trk, heap, end_pos)
                  ELSE [trk |-> trk, heap |-> heap]
       IN [trk |-> ext.trk,
           heap |-> writeLoop(ext.trk.head, ext.heap, HeadOf(ext.trk.head),
                              len, pos, 0, src)]

\* deleteRange(), first pass: TRUE when a touched segment has children
RECURSIVE childrenInRange(_, _, _, _)
childrenInRange(chain, current, local_off, to_check) ==
  IF current = NULL \/ ~(to_check > 0) THEN FALSE
  ELSE IF hasActiveChildren(chain[current]) THEN TRUE
  ELSE LET available == chain[current].length - local_off
       IN IF to_check > available
          THEN childrenInRange(chain, NextOf(chain, current), 0, to_check - available)
          ELSE FALSE

\* deleteRange(): "Find previous node if not at head"
RECURSIVE prevLoop(_, _, _)
prevLoop(chain, prev, current) ==
  IF prev = NULL \/ NextOf(chain, prev) = current THEN prev
  ELSE prevLoop(chain, NextOf(chain, prev), current)

findPrev(chain, current) ==
  IF current # HeadOf(chain) THEN prevLoop(chain, HeadOf(chain), current) ELSE NULL

\* deleteLoop without the memmove of the partial deletion
RECURSIVE deleteLoopNoShift(_, _, _, _, _, _)
deleteLoopNoShift(chain, heap, prev, current, local_off, to_delete) ==
  IF ~(to_delete > 0 /\ current # NULL) THEN [chain |-> chain, heap |-> heap]
  ELSE LET available == chain[current].length - local_off
       IN IF to_delete < available
          THEN [chain |-> [chain EXCEPT ![current].length = @ - to_delete],
                heap |-> heap]
          ELSE LET cut == [chain EXCEPT ![current].length = local_off]
               IN IF cut[current].length = 0
                  THEN LET unlinked ==
                             IF prev # NULL
                             THEN SubSeq(cut, 1, prev)
                                    \o SubSeq(cut, current + 1, Len(cut))
                             ELSE SubSeq(cut, current + 1, Len(cut))
                           after == IF prev # NULL THEN NextOf(unlinked, prev)
                                    ELSE HeadOf(unlinked)
                       IN deleteLoopNoShift(unlinked, heap, prev, after, 0,
                                            to_delete - available)
                  ELSE IF to_delete - available > 0
                       THEN deleteLoopNoShift(cut, heap, current,
                                              NextOf(cut, current), 0,
                                              to_delete - available)
                       ELSE [chain |-> cut, heap |-> heap]

\* deleteLoop leaving a segment it has emptied in the chain
RECURSIVE deleteLoopNoUnlink(_, _, _, _, _, _)
deleteLoopNoUnlink(chain, heap, prev, current, local_off, to_delete) ==
  IF ~(to_delete > 0 /\ current # NULL) THEN [chain |-> chain, heap |-> heap]
  ELSE LET available == chain[current].length - local_off
           data == chain[current].data
           off == chain[current].offset
       IN IF to_delete < available
          THEN [chain |-> [chain EXCEPT ![current].length = @ - to_delete],
                heap |-> [heap EXCEPT ![data] =
                            MemCpy(heap[data], off + local_off, heap[data],
                                   off + local_off + to_delete,
                                   available - to_delete)]]
          ELSE LET cut == [chain EXCEPT ![current].length = local_off]
               IN IF to_delete - available > 0
                  THEN deleteLoopNoUnlink(cut, heap, current, NextOf(cut, current),
                                          0, to_delete - available)
                  ELSE [chain |-> cut, heap |-> heap]

\* deleteLoop cutting a range out of the middle of a segment by splitting
\* it in two instead of shifting its samples
RECURSIVE deleteLoopSplits(_, _, _, _, _, _)
deleteLoopSplits(chain, heap, prev, current, local_off, to_delete) ==
  IF ~(to_delete > 0 /\ current # NULL) THEN [chain |-> chain, heap |-> heap]
  ELSE LET available == chain[current].length - local_off
           data == chain[current].data
           off == chain[current].offset
       IN IF to_delete < available
          THEN IF local_off = 0
               THEN [chain |-> [chain EXCEPT ![current].offset = @ + to_delete,
                                             ![current].length = @ - to_delete],
                     heap |-> heap]
               ELSE [chain |-> SubSeq(chain, 1, current - 1)
                                 \o <<[chain[current] EXCEPT !.length = local_off],
                                      SegmentNode(data, off + local_off + to_delete,
                                                  available - to_delete)>>
                                 \o SubSeq(chain, current + 1, Len(chain)),
                     heap |-> heap]
          ELSE LET cut == [chain EXCEPT ![current].length = local_off]
               IN IF cut[current].length = 0
                  THEN LET unlinked ==
                             IF prev # NULL
                             THEN SubSeq(cut, 1, prev)
                                    \o SubSeq(cut, current + 1, Len(cut))
                             ELSE SubSeq(cut, current + 1, Len(cut))
                           after == IF prev # NULL THEN NextOf(unlinked, prev)
                                    ELSE HeadOf(unlinked)
                       IN deleteLoopSplits(unlinked, heap, prev, after, 0,
                                     to_delete - available)
                  ELSE IF to_delete - available > 0
                       THEN deleteLoopSplits(cut, heap, current, NextOf(cut, current), 0,
                                       to_delete - available)
                       ELSE [chain |-> cut, heap |-> heap]

\* deleteRange(), second pass; prev->next = current->next drops the nodes
\* between prev and current->next, head = current->next those up to current
RECURSIVE deleteLoop(_, _, _, _, _, _)
deleteLoop(chain, heap, prev, current, local_off, to_delete) ==
  IF ~(to_delete > 0 /\ current # NULL) THEN [chain |-> chain, heap |-> heap]
  ELSE LET available == chain[current].length - local_off
           data == chain[current].data
           off == chain[current].offset
       IN IF to_delete < available
          THEN [chain |-> [chain EXCEPT ![current].length = @ - to_delete],
                heap |-> [heap EXCEPT ![data] =
                            MemCpy(heap[data], off + local_off, heap[data],
                                   off + local_off + to_delete,
                                   available - to_delete)]]
          ELSE LET cut == [chain EXCEPT ![current].length = local_off]
               IN IF cut[current].length = 0
                  THEN LET unlinked ==
                             IF prev # NULL
                             THEN SubSeq(cut, 1, prev)
                                    \o SubSeq(cut, current + 1, Len(cut))
                             ELSE SubSeq(cut, current + 1, Len(cut))
                           after == IF prev # NULL THEN NextOf(unlinked, prev)
                                    ELSE HeadOf(unlinked)
                       IN deleteLoop(unlinked, heap, prev, after, 0,
                                     to_delete - available)
                  ELSE IF to_delete - available > 0
                       THEN deleteLoop(cut, heap, current, NextOf(cut, current), 0,
                                       to_delete - available)
                       ELSE [chain |-> cut, heap |-> heap]

\* deleteRange whose range check forgets len
deleteRangeLaxCheck(trk, heap, pos, len) ==
  IF pos > trk.total_length
  THEN [ret |-> FALSE, trk |-> trk, heap |-> heap]
  ELSE LET found == findSegmentAt(trk, pos)
       IN IF childrenInRange(trk.head, found.node, found.local_offset, len)
          THEN [ret |-> FALSE, trk |-> trk, heap |-> heap]
          ELSE LET done == deleteLoop(trk.head, heap, findPrev(trk.head, found.node),
                                      found.node, found.local_offset, len)
               IN [ret |-> TRUE, trk |-> updateGlobalIndices(done.chain),
                   heap |-> done.heap]

\* deleteRange without the final updateGlobalIndices()
deleteRangeNoReindex(trk, heap, pos, len) ==
  IF SizeAdd(pos, len) > trk.total_length
  THEN [ret |-> FALSE, trk |-> trk, heap |-> heap]
  ELSE LET found == findSegmentAt(trk, pos)
       IN IF childrenInRange(trk.head, found.node, found.local_offset, len)
          THEN [ret |-> FALSE, trk |-> trk, heap |-> heap]
          ELSE LET done == deleteLoop(trk.head, heap, findPrev(trk.head, found.node),
                                      found.node, found.local_offset, len)
               IN [ret |-> TRUE, trk |-> [trk EXCEPT !.head = done.chain],
                   heap |-> done.heap]

deleteRange(trk, heap, pos, len) ==
  IF SizeAdd(pos, len) > trk.total_length
  THEN [ret |-> FALSE, trk |-> trk, heap |-> heap]
  ELSE LET found == findSegmentAt(trk, pos)
       IN IF childrenInRange(trk.head, found.node, found.local_offset, len)
          THEN [ret |-> FALSE, trk |-> trk, heap |-> heap]
          ELSE LET done == deleteLoop(trk.head, heap, findPrev(trk.head, found.node),
                                      found.node, found.local_offset, len)
               IN [ret |-> TRUE, trk |-> updateGlobalIndices(done.chain),
                   heap |-> done.heap]

\* identify(): auto_ref, the energy of the pattern
RECURSIVE autoRefLoop(_, _, _)
autoRefLoop(ad_samples, j, auto_ref) ==
  IF ~(j < Len(ad_samples)) THEN auto_ref
  ELSE autoRefLoop(ad_samples, j + 1,
                   auto_ref + ad_samples[j + 1] * ad_samples[j + 1])

\* identify(): corr of the window starting at i
RECURSIVE corrLoop(_, _, _, _, _)
corrLoop(target_samples, ad_samples, i, j, corr) ==
  IF ~(j < Len(ad_samples)) THEN corr
  ELSE corrLoop(target_samples, ad_samples, i, j + 1,
                corr + target_samples[i + j + 1] * ad_samples[j + 1])

\* the comparison with > in place of >=
reachesThresholdStrict(corr, auto_ref) ==
  corr * CORRELATION_THRESHOLD_DEN > CORRELATION_THRESHOLD_NUM * auto_ref

\* corr >= CORRELATION_THRESHOLD * auto_ref.  The sums are integers, exact in
\* a double below 2^53, and the product with the double nearest 0.95 rounds
\* to 19*auto_ref/20 whenever that is an integer, so the comparison of
\* doubles agrees with the comparison of the exact rationals.
reachesThreshold(corr, auto_ref) ==
  corr * CORRELATION_THRESHOLD_DEN >= CORRELATION_THRESHOLD_NUM * auto_ref

\* scanLoop advancing by one after a match
RECURSIVE scanLoopOverlap(_, _, _, _, _)
scanLoopOverlap(target_samples, ad_samples, auto_ref, i, occurrences) ==
  IF ~(i <= SizeSub(Len(target_samples), Len(ad_samples))) THEN occurrences
  ELSE IF reachesThreshold(corrLoop(target_samples, ad_samples, i, 0, 0), auto_ref)
       THEN scanLoopOverlap(target_samples, ad_samples, auto_ref, i + 1,
                     Append(occurrences, <<i, i + Len(ad_samples) - 1>>))
       ELSE scanLoopOverlap(target_samples, ad_samples, auto_ref, i + 1,
                            occurrences)

\* scanLoop recording one sample too many as the end of a match
RECURSIVE scanLoopWideEnd(_, _, _, _, _)
scanLoopWideEnd(target_samples, ad_samples, auto_ref, i, occurrences) ==
  IF ~(i <= SizeSub(Len(target_samples), Len(ad_samples))) THEN occurrences
  ELSE IF reachesThreshold(corrLoop(target_samples, ad_samples, i, 0, 0), auto_ref)
       THEN scanLoopWideEnd(target_samples, ad_samples, auto_ref,
                            i + Len(ad_samples),
                            Append(occurrences, <<i, i + Len(ad_samples)>>))
       ELSE scanLoopWideEnd(target_samples, ad_samples, auto_ref, i + 1,
                            occurrences)

\* scanLoop leaving one sample unscanned after a match
RECURSIVE scanLoopSkipFar(_, _, _, _, _)
scanLoopSkipFar(target_samples, ad_samples, auto_ref, i, occurrences) ==
  IF ~(i <= SizeSub(Len(target_samples), Len(ad_samples))) THEN occurrences
  ELSE IF reachesThreshold(corrLoop(target_samples, ad_samples, i, 0, 0), auto_ref)
       THEN scanLoopSkipFar(target_samples, ad_samples, auto_ref,
                            i + Len(ad_samples) + 1,
                            Append(occurrences, <<i, i + Len(ad_samples) - 1>>))
       ELSE scanLoopSkipFar(target_samples, ad_samples, auto_ref, i + 1,
                            occurrences)

RECURSIVE scanLoop(_, _, _, _, _)
scanLoop(target_samples, ad_samples, auto_ref, i, occurrences) ==
  IF ~(i <= SizeSub(Len(target_samples), Len(ad_samples))) THEN occurrences
  ELSE IF reachesThreshold(corrLoop(target_samples, ad_samples, i, 0, 0), auto_ref)
       THEN scanLoop(target_samples, ad_samples, auto_ref, i + Len(ad_samples),
                     Append(occurrences, <<i, i + Len(ad_samples) - 1>>))
       ELSE scanLoop(target_samples, ad_samples, auto_ref, i + 1, occurrences)

\* identify(): "Format result string"; the string as its tokens
RECURSIVE formatLoop(_, _, _)
formatLoop(occurrences, i, result) ==
  IF ~(i < Len(occurrences)) THEN result
  ELSE formatLoop(occurrences, i + 1,
                  (IF i > 0 THEN result \o <<"\n">> ELSE result)
                    \o <<ToString(occurrences[i + 1][1]), ",",
                         ToString(occurrences[i + 1][2])>>)

identify(trk, ad, heap) ==
  IF trk.total_length = 0 \/ ad.total_length = 0
     \/ trk.total_length < ad.total_length
  THEN <<>>
  ELSE LET target_samples == getAllSamples(trk, heap)
           ad_samples == getAllSamples(ad, heap)
       IN formatLoop(scanLoop(target_samples, ad_samples,
                              autoRefLoop(ad_samples, 0, 0), 0, <<>>), 0, <<>>)

\* identifyReads fetching both sample arrays before the guard
identifyReadsEager(trk, ad, heap) ==
  Len(getAllSamples(trk, heap)) + Len(getAllSamples(ad, heap))

\* the number of samples identify() reads out of the two tracks
identifyReads(trk, ad, heap) ==
  IF trk.total_length = 0 \/ ad.total_length = 0
     \/ trk.total_length < ad.total_length
  THEN 0
  ELSE Len(getAllSamples(trk, heap)) + Len(getAllSamples(ad, heap))

\* buildLoop handing out views of the source's buffers instead of copies
RECURSIVE buildLoopShared(_, _, _, _, _)
buildLoopShared(src_track, heap, insertion, remaining, current_global) ==
  IF ~(remaining > 0) THEN [insertion |-> insertion, heap |-> heap]
  ELSE LET found == findSegmentAt(src_track, current_global)
       IN IF found.node = NULL THEN [insertion |-> insertion, heap |-> heap]
          ELSE LET cur_node == src_track.head[found.node]
                   take == Min(cur_node.length - found.local_offset, remaining)
                   clone == SegmentNode(cur_node.data,
                                        cur_node.offset + found.local_offset, take)
               IN buildLoopShared(src_track, heap, Append(insertion, clone),
                                  remaining - take, current_global + take)

\* buildLoop making a clone of every sample
RECURSIVE buildLoopPerSample(_, _, _, _, _)
buildLoopPerSample(src_track, heap, insertion, remaining, current_global) ==
  IF ~(remaining > 0) THEN [insertion |-> insertion, heap |-> heap]
  ELSE LET found == findSegmentAt(src_track, current_global)
       IN IF found.node = NULL THEN [insertion |-> insertion, heap |-> heap]
          ELSE LET cur_node == src_track.head[found.node]
                   take == 1
                   data_copy == MemCpy(ZeroVector(take), 0, heap[cur_node.data],
                                       cur_node.offset + found.local_offset, take)
                   clone == [SegmentNode(NewBufId(heap), 0, take)
                               EXCEPT !.is_buffer_owner = TRUE]
               IN buildLoopPerSample(src_track, AllocBuf(heap, data_copy),
                                     Append(insertion, clone), remaining - take,
                                     current_global + take)

\* buildLoop copying from the start of the source segment's window, without
\* the local offset of current_global in it
RECURSIVE buildLoopNoLocalOffset(_, _, _, _, _)
buildLoopNoLocalOffset(src_track, heap, insertion, remaining, current_global) ==
  IF ~(remaining > 0) THEN [insertion |-> insertion, heap |-> heap]
  ELSE LET found == findSegmentAt(src_track, current_global)
       IN IF found.node = NULL THEN [insertion |-> insertion, heap |-> heap]
          ELSE LET cur_node == src_track.head[found.node]
                   take == Min(cur_node.length - found.local_offset, remaining)
                   data_copy == MemCpy(ZeroVector(take), 0, heap[cur_node.data],
                                       cur_node.offset, take)
                   clone == [SegmentNode(NewBufId(heap), 0, take)
                               EXCEPT !.is_buffer_owner = TRUE]
               IN buildLoopNoLocalOffset(src_track, AllocBuf(heap, data_copy),
                            Append(insertion, clone), remaining - take,
                            current_global + take)

\* buildLoop moving the samples: the range it has copied is zeroed in the
\* source segment's buffer
RECURSIVE buildLoopMoves(_, _, _, _, _)
buildLoopMoves(src_track, heap, insertion, remaining, current_global) ==
  IF ~(remaining > 0) THEN [insertion |-> insertion, heap |-> heap]
  ELSE LET found == findSegmentAt(src_track, current_global)
       IN IF found.node = NULL THEN [insertion |-> insertion, heap |-> heap]
          ELSE LET cur_node == src_track.head[found.node]
                   take == Min(cur_node.length - found.local_offset, remaining)
                   data_copy == MemCpy(ZeroVector(take), 0, heap[cur_node.data],
                                       cur_node.offset + found.local_offset, take)
                   clone == [SegmentNode(NewBufId(heap), 0, take)
                               EXCEPT !.is_buffer_owner = TRUE]
                   moved == [heap EXCEPT ![cur_node.data] =
                               MemCpy(@, cur_node.offset + found.local_offset,
                                      ZeroVector(take), 0, take)]
               IN buildLoopMoves(src_track, AllocBuf(moved, data_copy),
                            Append(insertion, clone), remaining - take,
                            current_global + take)

\* insert(): "Build the list of segments to insert"
RECURSIVE buildLoop(_, _, _, _, _)
buildLoop(src_track, heap, insertion, remaining, current_global) ==
  IF ~(remaining > 0) THEN [insertion |-> insertion, heap |-> heap]
  ELSE LET found == findSegmentAt(src_track, current_global)
       IN IF found.node = NULL THEN [insertion |-> insertion, heap |-> heap]
          ELSE LET cur_node == src_track.head[found.node]
                   take == Min(cur_node.length - found.local_offset, remaining)
                   data_copy == MemCpy(ZeroVector(take), 0, heap[cur_node.data],
                                       cur_node.offset + found.local_offset, take)
                   clone == [SegmentNode(NewBufId(heap), 0, take)
                               EXCEPT !.is_buffer_owner = TRUE]
               IN buildLoop(src_track, AllocBuf(heap, data_copy),
                            Append(insertion, clone), remaining - take,
                            current_global + take)

\* insert without the split of the segment that holds dest_pos
insertNoSplit(trk, src_track, heap, dest_pos, src_pos, len) ==
  IF len = 0 THEN [trk |-> trk, heap |-> heap, crashed |-> FALSE]
  ELSE
  LET built == buildLoop(src_track, heap, <<>>, len, src_pos)
      insertion == built.insertion
      found == findSegmentAt(trk, dest_pos)
      chain == trk.head
      dest_node == found.node
      prev == prevLoop(chain, HeadOf(chain), dest_node)
  IN IF dest_node = NULL
     THEN [trk |-> updateGlobalIndices(chain \o insertion),
           heap |-> built.heap, crashed |-> FALSE]
     ELSE IF HeadOf(chain) = dest_node
     THEN IF insertion = <<>>
          THEN [trk |-> [trk EXCEPT !.head = chain], heap |-> built.heap,
                crashed |-> TRUE]
          ELSE [trk |-> updateGlobalIndices(
                          insertion \o SubSeq(chain, dest_node, Len(chain))),
                heap |-> built.heap, crashed |-> FALSE]
     ELSE IF prev = NULL
     THEN [trk |-> updateGlobalIndices(chain), heap |-> built.heap,
           crashed |-> FALSE]
     ELSE IF insertion = <<>>
     THEN [trk |-> [trk EXCEPT !.head = SubSeq(chain, 1, prev)],
           heap |-> built.heap, crashed |-> TRUE]
     ELSE [trk |-> updateGlobalIndices(
                     SubSeq(chain, 1, prev) \o insertion
                       \o SubSeq(chain, dest_node, Len(chain))),
           heap |-> built.heap, crashed |-> FALSE]

\* insert that fills the gap between the end of the track and dest_pos with
\* zeros before appending
insertPadsGap(trk, src_track, heap, dest_pos, src_pos, len) ==
  IF len = 0 THEN [trk |-> trk, heap |-> heap, crashed |-> FALSE]
  ELSE
  LET built == buildLoop(src_track, heap, <<>>, len, src_pos)
      insertion == built.insertion
      found == findSegmentAt(trk, dest_pos)
      split == IF found.node # NULL /\ found.local_offset > 0
               THEN splitNode(trk.head, found.node, found.local_offset)
               ELSE [chain |-> trk.head, right |-> found.node]
      chain == split.chain
      dest_node == split.right
      prev == prevLoop(chain, HeadOf(chain), dest_node)
      gap == dest_pos - trk.total_length
  IN IF dest_node = NULL /\ gap > 0
     THEN [trk |-> updateGlobalIndices(
                     chain \o <<[SegmentNode(NewBufId(built.heap), 0, gap)
                                   EXCEPT !.is_buffer_owner = TRUE]>>
                           \o insertion),
           heap |-> AllocBuf(built.heap, ZeroVector(gap)), crashed |-> FALSE]
     ELSE IF dest_node = NULL
     THEN [trk |-> updateGlobalIndices(chain \o insertion),
           heap |-> built.heap, crashed |-> FALSE]
     ELSE IF HeadOf(chain) = dest_node
     THEN IF insertion = <<>>
          THEN [trk |-> [trk EXCEPT !.head = chain], heap |-> built.heap,
                crashed |-> TRUE]
          ELSE [trk |-> updateGlobalIndices(
                          insertion \o SubSeq(chain, dest_node, Len(chain))),
                heap |-> built.heap, crashed |-> FALSE]
     ELSE IF prev = NULL
     THEN [trk |-> updateGlobalIndices(chain), heap |-> built.heap,
           crashed |-> FALSE]
     ELSE IF insertion = <<>>
     THEN [trk |-> [trk EXCEPT !.head = SubSeq(chain, 1, prev)],
           heap |-> built.heap, crashed |-> TRUE]
     ELSE [trk |-> updateGlobalIndices(
                     SubSeq(chain, 1, prev) \o insertion
                       \o SubSeq(chain, dest_node, Len(chain))),
           heap |-> built.heap, crashed |-> FALSE]

\* insert(); `crashed` when insertion_tail is dereferenced while null, with
\* the chain as it is at that statement
insert(trk, src_track, heap, dest_pos, src_pos, len) ==
  IF len = 0 THEN [trk |-> trk, heap |-> heap, crashed |-> FALSE]
  ELSE
  LET built == buildLoop(src_track, heap, <<>>, len, src_pos)
      insertion == built.insertion
      found == findSegmentAt(trk, dest_pos)
      split == IF found.node # NULL /\ found.local_offset > 0
               THEN splitNode(trk.head, found.node, found.local_offset)
               ELSE [chain |-> trk.head, right |-> found.node]
      chain == split.chain
      dest_node == split.right
      prev == prevLoop(chain, HeadOf(chain), dest_node)
  IN IF dest_node = NULL
     THEN [trk |-> updateGlobalIndices(chain \o insertion),
           heap |-> built.heap, crashed |-> FALSE]
     ELSE IF HeadOf(chain) = dest_node
     THEN IF insertion = <<>>
          THEN [trk |-> [trk EXCEPT !.head = chain], heap |-> built.heap,
                crashed |-> TRUE]
          ELSE [trk |-> updateGlobalIndices(
                          insertion \o SubSeq(chain, dest_node, Len(chain))),
                heap |-> built.heap, crashed |-> FALSE]
     ELSE IF prev = NULL
     THEN [trk |-> updateGlobalIndices(chain), heap |-> built.heap,
           crashed |-> FALSE]
     ELSE IF insertion = <<>>
     THEN [trk |-> [trk EXCEPT !.head = SubSeq(chain, 1, prev)],
           heap |-> built.heap, crashed |-> TRUE]
     ELSE [trk |-> updateGlobalIndices(
                     SubSeq(chain, 1, prev) \o insertion
                       \o SubSeq(chain, dest_node, Len(chain))),
           heap |-> built.heap, crashed |-> FALSE]

\* ------------------------------------------- SoundSegment_Simple.cpp
\* The second implementation: the same chain, with malloc'ed buffers and raw
\* pointers.  Its deleteRange never unlinks a node, so no buffer is freed.
Simple_SegmentNode(data_ptr, offset, len) ==
  [data |-> data_ptr, offset |-> offset, length |-> len, global_start |-> 0,
   is_buffer_owner |-> FALSE]

RECURSIVE Simple_updateLoop(_, _, _)
Simple_updateLoop(chain, current, global_pos) ==
  IF current = NULL THEN [head |-> chain, total_length |-> global_pos]
  ELSE Simple_updateLoop([chain EXCEPT ![current].global_start = global_pos],
                         NextOf(chain, current),
                         global_pos + chain[current].length)

Simple_updateGlobalIndices(chain) == Simple_updateLoop(chain, HeadOf(chain), 0)

RECURSIVE Simple_findLoop(_, _, _)
Simple_findLoop(chain, current, pos) ==
  IF current = NULL THEN [node |-> NULL, local_offset |-> 0]
  ELSE IF pos >= chain[current].global_start
          /\ pos < chain[current].global_start + chain[current].length
       THEN [node |-> current, local_offset |-> pos - chain[current].global_start]
       ELSE Simple_findLoop(chain, NextOf(chain, current), pos)

Simple_findSegmentAt(trk, pos) == Simple_findLoop(trk.head, HeadOf(trk.head), pos)

\* write(): "Extend track if necessary"; malloc and memset give a zeroed
\* buffer
Simple_extendTrack(trk, heap, end_pos) ==
  IF HeadOf(trk.head) = NULL
  THEN LET first == [Simple_SegmentNode(NewBufId(heap), 0, end_pos)
                       EXCEPT !.is_buffer_owner = TRUE]
       IN [trk |-> Simple_updateGlobalIndices(<<first>>),
           heap |-> AllocBuf(heap, ZeroVector(end_pos))]
  ELSE LET tail == Len(trk.head)
           last_end == trk.head[tail].global_start + trk.head[tail].length
       IN IF last_end < end_pos
          THEN LET new_node_len == end_pos - last_end
                   new_node == [Simple_SegmentNode(NewBufId(heap), 0, new_node_len)
                                  EXCEPT !.global_start = last_end,
                                         !.is_buffer_owner = TRUE]
               IN [trk |-> Simple_updateGlobalIndices(Append(trk.head, new_node)),
                   heap |-> AllocBuf(heap, ZeroVector(new_node_len))]
          ELSE [trk |-> Simple_updateGlobalIndices(trk.head), heap |-> heap]

\* write(): "Write data to appropriate segments"
RECURSIVE Simple_writeLoop(_, _, _, _, _, _, _)
Simple_writeLoop(chain, heap, current, remaining, global_index, src_index, src) ==
  IF current = NULL \/ ~(remaining > 0) THEN heap
  ELSE IF global_index >= chain[current].global_start
          /\ global_index < chain[current].global_start + chain[current].length
       THEN LET local_offset == global_index - chain[current].global_start
                available == chain[current].length - local_offset
                to_write == IF remaining < available THEN remaining ELSE available
                data == chain[current].data
            IN Simple_writeLoop(chain,
                         [heap EXCEPT ![data] =
                            MemCpy(heap[data], chain[current].offset + local_offset,
                                   src, src_index, to_write)],
                         NextOf(chain, current), remaining - to_write,
                         global_index + to_write, src_index + to_write, src)
       ELSE Simple_writeLoop(chain, heap, NextOf(chain, current), remaining,
                             global_index, src_index, src)

Simple_write(trk, heap, src, pos) ==
  LET len == Len(src) IN
  IF len = 0 THEN [trk |-> trk, heap |-> heap]
  ELSE LET end_pos == SizeAdd(pos, len)
           ext == IF end_pos > trk.total_length
                  THEN Simple_extendTrack(trk, heap, end_pos)
                  ELSE [trk |-> trk, heap |-> heap]
       IN [trk |-> ext.trk,
           heap |-> Simple_writeLoop(ext.trk.head, ext.heap, HeadOf(ext.trk.head),
                                     len, pos, 0, src)]

\* deleteRange(): the loop; findSegmentAt sees the lengths the loop has
\* changed and the global_start values of before the call
RECURSIVE Simple_deleteLoop(_, _, _, _)
Simple_deleteLoop(chain, heap, remaining, cur_pos) ==
  IF ~(remaining > 0) THEN [chain |-> chain, heap |-> heap]
  ELSE LET found == Simple_findLoop(chain, HeadOf(chain), cur_pos)
           current == found.node
           local_off == found.local_offset
       IN IF current = NULL THEN [chain |-> chain, heap |-> heap]
          ELSE LET available == chain[current].length - local_off
                   to_delete == IF remaining < available THEN remaining
                                ELSE available
                   data == chain[current].data
                   off == chain[current].offset
               IN Simple_deleteLoop(
                    [chain EXCEPT ![current].length = @ - to_delete],
                    [heap EXCEPT ![data] =
                       MemCpy(heap[data], off + local_off, heap[data],
                              off + local_off + to_delete, available - to_delete)],
                    remaining - to_delete, cur_pos)

Simple_deleteRange(trk, heap, pos, len) ==
  IF SizeAdd(pos, len) > trk.total_length
  THEN [ret |-> FALSE, trk |-> trk, heap |-> heap]
  ELSE LET done == Simple_deleteLoop(trk.head, heap, len, pos)
       IN [ret |-> TRUE, trk |-> Simple_updateGlobalIndices(done.chain),
           heap |-> done.heap]

\* read(int16_t* dest, start_pos, len)
RECURSIVE Simple_readLoop(_, _, _, _, _, _, _)
Simple_readLoop(chain, heap, current, dest, samples_copied, start_pos, len) ==
  IF current = NULL \/ ~(samples_copied < len) THEN dest
  ELSE IF start_pos >= chain[current].global_start
          /\ start_pos < chain[current].global_start + chain[current].length
       THEN LET local_index == start_pos - chain[current].global_start
                samples_in_node == chain[current].length - local_index
                samples_remaining == len - samples_copied
                samples_to_copy == IF samples_remaining < samples_in_node
                                   THEN samples_remaining ELSE samples_in_node
            IN Simple_readLoop(chain, heap, NextOf(chain, current),
                        MemCpy(dest, samples_copied, heap[chain[current].data],
                               chain[current].offset + local_index, samples_to_copy),
                        samples_copied + samples_to_copy,
                        start_pos + samples_to_copy, len)
       ELSE Simple_readLoop(chain, heap, NextOf(chain, current), dest,
                            samples_copied, start_pos, len)

Simple_getAllSamples(trk, heap) ==
  Simple_readLoop(trk.head, heap, HeadOf(trk.head), ZeroVector(trk.total_length),
                  0, 0, trk.total_length)

\* ~SegmentNode of every node of the chain: free(data) of the owners
Simple_freeChain(chain, heap) ==
  [b \in 1..Len(heap) |->
     IF \E i \in 1..Len(chain) : chain[i].data = b /\ chain[i].is_buffer_owner
     THEN <<>> ELSE heap[b]]

\* insert(): the destination is flattened, rebuilt and written back whole
Simple_insert(trk, src_track, heap, dest_pos, src_pos, len) ==
  LET src_data == Simple_getAllSamples(src_track, heap)
  IN IF src_pos >= Len(src_data) THEN [trk |-> trk, heap |-> heap]
     ELSE LET actual_len == IF SizeAdd(src_pos, len) > Len(src_data)
                            THEN Len(src_data) - src_pos ELSE len
              insert_data == SubSeq(src_data, src_pos + 1, src_pos + actual_len)
              dest_data == Simple_getAllSamples(trk, heap)
              new_data == SubSeq(dest_data, 1, Min(dest_pos, Len(dest_data)))
                            \o insert_data
                            \o SubSeq(dest_data, dest_pos + 1, Len(dest_data))
          IN Simple_write([head |-> <<>>, total_length |-> 0],
                          Simple_freeChain(trk.head, heap), new_data, 0)

\* ------------------------------------------------------------------ WavIO
\* A file is a record: whether it exists, and its bytes.
NoFile == [exists |-> FALSE, bytes |-> <<>>]

\* the k bytes of n, least significant first
LittleEndian(n, k) == [i \in 1..k |-> (n \div (256 ^ (i - 1))) % 256]

\* the bytes of an int16_t array in memory (two's complement, little endian)
SampleBytes(samples) ==
  [i \in 1..(BYTES_PER_SAMPLE * Len(samples)) |->
     LET s == samples[(i + 1) \div 2] % 65536
     IN IF i % 2 = 1 THEN s % 256 ELSE s \div 256]

\* the int16_t array of n samples whose memory holds the given bytes
SamplesOf(bytes, n) ==
  [k \in 1..n |->
     LET v == bytes[2 * k - 1] + 256 * bytes[2 * k]
     IN IF v >= 32768 THEN v - 65536 ELSE v]

\* conversion to uint32_t
Uint32(n) == n % Uint32Mod

\* the header WavIO::save writes; "RIFF", "WAVE", "fmt " and "data" as their
\* character codes
WavHeader(chunk_size, subchunk2_size) ==
  LET byte_rate == (SAMPLE_RATE * NUM_CHANNELS * BITS_PER_SAMPLE) \div 8
      block_align == (NUM_CHANNELS * BITS_PER_SAMPLE) \div 8
  IN <<82, 73, 70, 70>> \o LittleEndian(chunk_size, 4)
       \o <<87, 65, 86, 69>> \o <<102, 109, 116, 32>>
       \o LittleEndian(PCM_HEADER_SIZE, 4) \o LittleEndian(PCM_FORMAT, 2)
       \o LittleEndian(NUM_CHANNELS, 2) \o LittleEndian(SAMPLE_RATE, 4)
       \o LittleEndian(byte_rate, 4) \o LittleEndian(block_align, 2)
       \o LittleEndian(BITS_PER_SAMPLE, 2)
       \o <<100, 97, 116, 97>> \o LittleEndian(subchunk2_size, 4)

\* WavIO::load of a file at least as long as the header; thrown: the
\* std::runtime_error of a file that cannot be opened
WavIO_load(file) ==
  IF ~file.exists THEN [thrown |-> TRUE, samples |-> <<>>]
  ELSE LET file_size == Len(file.bytes)
           data_size == file_size - WAV_HEADER_SIZE
           num_samples == data_size \div BYTES_PER_SAMPLE
       IN [thrown |-> FALSE,
           samples |-> SamplesOf(SubSeq(file.bytes, WAV_HEADER_SIZE + 1,
                                        WAV_HEADER_SIZE + data_size),
                                 num_samples)]

\* WavIO::save; file: the file at that path afterwards
WavIO_save(file, creatable, samples) ==
  IF ~creatable THEN [thrown |-> TRUE, file |-> file]
  ELSE LET subchunk2_size == Uint32(Len(samples) * BYTES_PER_SAMPLE)
           chunk_size == Uint32(36 + subchunk2_size)
       IN [thrown |-> FALSE,
           file |-> [exists |-> TRUE,
                     bytes |-> WavHeader(chunk_size, subchunk2_size)
                                 \o SubSeq(SampleBytes(samples), 1, subchunk2_size)]]

\* loadFromWav that goes on with no samples when the file cannot be opened
loadFromWavSwallow(trk, heap, file) ==
  LET loaded == WavIO_load(file)
      written == write(trk, heap, loaded.samples, 0)
  IN [thrown |-> FALSE, trk |-> written.trk, heap |-> written.heap]

\* loadFromWav that drops the chain before writing the file's samples
loadFromWavReplace(trk, heap, file) ==
  LET loaded == WavIO_load(file)
  IN IF loaded.thrown THEN [thrown |-> TRUE, trk |-> trk, heap |-> heap]
     ELSE LET written == write(EmptyTrack, heap, loaded.samples, 0)
          IN [thrown |-> FALSE, trk |-> written.trk, heap |-> written.heap]

loadFromWav(trk, heap, file) ==
  LET loaded == WavIO_load(file)
  IN IF loaded.thrown THEN [thrown |-> TRUE, trk |-> trk, heap |-> heap]
     ELSE LET written == write(trk, heap, loaded.samples, 0)
          IN [thrown |-> FALSE, trk |-> written.trk, heap |-> written.heap]

saveToWav(trk, heap, file, creatable) ==
  WavIO_save(file, creatable, getAllSamples(trk, heap))

\* ----------------------------------------------------------- state machine
\* tracks[t] is a SoundSegment, bufs the sample buffers, crashed is set by a
\* null dereference, lastCall is the call that has just been made with its
\* result (op "none" once the caller has taken it) and calls counts them.
\* reads: the samples the call read out of the tracks; thrown: the call left
\* by an exception; simple_ok: what the Simple implementation returned;
\* files: the file at each path.
\* pre_len, pre_segs: length() and number of segments of the destination
\* before the call; src_len: length() of the source before the call;
\* node, right: the segment handed to splitNode and the one it returned.
NoCall ==
  [op |-> "none", dst |-> 0, src |-> 0, pos |-> 0, src_pos |-> 0, len |-> 0,
   data |-> <<>>, ok |-> TRUE, out |-> <<>>, reads |-> 0,
   path |-> "", thrown |-> FALSE, simple_ok |-> TRUE,
   pre_len |-> 0, pre_segs |-> 0, src_len |-> 0, node |-> NULL, right |-> NULL]

CallOn(op, t) ==
  [NoCall EXCEPT !.op = op, !.dst = t, !.pre_len = tracks[t].total_length,
                 !.pre_segs = Len(tracks[t].head)]

Idle == ~crashed /\ lastCall.op = "none" /\ calls < MaxCalls

Init ==
  /\ tracks = [t \in Tracks |-> EmptyTrack]
  /\ bufs = <<>>
  /\ crashed = FALSE
  /\ lastCall = NoCall
  /\ calls = 0
  /\ files = [p \in Paths |-> NoFile]

Write(t, src, pos) ==
  /\ Idle
  /\ LET r == write(tracks[t], bufs, src, pos)
     IN /\ r.trk.total_length <= MaxLen
        /\ tracks' = [tracks EXCEPT ![t] = r.trk]
        /\ bufs' = Release(r.heap, [tracks EXCEPT ![t] = r.trk])
  /\ crashed' = FALSE
  /\ calls' = calls + 1
  /\ lastCall' = [CallOn("write", t) EXCEPT !.pos = pos,
                                !.data = src, !.len = Len(src)]
  /\ UNCHANGED files

DeleteRange(t, pos, len) ==
  /\ Idle
  /\ LET r == deleteRange(tracks[t], bufs, pos, len)
     IN /\ tracks' = [tracks EXCEPT ![t] = r.trk]
        /\ bufs' = Release(r.heap, [tracks EXCEPT ![t] = r.trk])
        /\ lastCall' = [CallOn("deleteRange", t) EXCEPT
                          !.pos = pos, !.len = len, !.ok = r.ret]
  /\ crashed' = FALSE
  /\ calls' = calls + 1
  /\ UNCHANGED files

Insert(t, s, dest_pos, src_pos, len) ==
  /\ Idle
  /\ LET r == insert(tracks[t], tracks[s], bufs, dest_pos, src_pos, len)
     IN /\ r.trk.total_length <= MaxLen
        /\ tracks' = [tracks EXCEPT ![t] = r.trk]
        /\ bufs' = Release(r.heap, [tracks EXCEPT ![t] = r.trk])
        /\ crashed' = r.crashed
  /\ calls' = calls + 1
  /\ lastCall' = [CallOn("insert", t) EXCEPT
                    !.src = s, !.pos = dest_pos, !.src_pos = src_pos,
                    !.len = len, !.src_len = tracks[s].total_length]
  /\ UNCHANGED files

Read(t, dest, start_pos, len) ==
  /\ Idle
  /\ lastCall' = [CallOn("read", t) EXCEPT
                    !.pos = start_pos, !.len = len, !.data = dest,
                    !.out = read(tracks[t], bufs, dest, start_pos, len)]
  /\ calls' = calls + 1
  /\ UNCHANGED <<tracks, bufs, crashed, files>>

Identify(t, ad) ==
  /\ Idle
  /\ lastCall' = [CallOn("identify", t) EXCEPT
                    !.src = ad, !.src_len = tracks[ad].total_length,
                    !.out = identify(tracks[t], tracks[ad], bufs),
                    !.reads = identifyReads(tracks[t], tracks[ad], bufs)]
  /\ calls' = calls + 1
  /\ UNCHANGED <<tracks, bufs, crashed, files>>

\* insert() of the whole of track s
InsertAll(t, s, dest_pos) ==
  /\ Idle
  /\ LET r == insert(tracks[t], tracks[s], bufs, dest_pos, 0,
                     tracks[s].total_length)
     IN /\ r.trk.total_length <= MaxGrowLen
        /\ tracks' = [tracks EXCEPT ![t] = r.trk]
        /\ bufs' = Release(r.heap, [tracks EXCEPT ![t] = r.trk])
        /\ crashed' = r.crashed
  /\ calls' = calls + 1
  /\ lastCall' = [CallOn("insert", t) EXCEPT
                    !.src = s, !.pos = dest_pos, !.src_pos = 0,
                    !.len = tracks[s].total_length,
                    !.src_len = tracks[s].total_length]
  /\ UNCHANGED files

LoadFromWav(t, p) ==
  /\ Idle
  /\ LET r == loadFromWav(tracks[t], bufs, files[p])
     IN /\ r.trk.total_length <= MaxLen
        /\ tracks' = [tracks EXCEPT ![t] = r.trk]
        /\ bufs' = Release(r.heap, [tracks EXCEPT ![t] = r.trk])
        /\ lastCall' = [CallOn("loadFromWav", t) EXCEPT
                          !.path = p, !.thrown = r.thrown]
  /\ calls' = calls + 1
  /\ UNCHANGED <<crashed, files>>

SaveToWav(t, p) ==
  /\ Idle
  /\ LET r == saveToWav(tracks[t], bufs, files[p], p \in Creatable)
     IN /\ files' = [files EXCEPT ![p] = r.file]
        /\ lastCall' = [CallOn("saveToWav", t) EXCEPT
                          !.path = p, !.thrown = r.thrown]
  /\ calls' = calls + 1
  /\ UNCHANGED <<tracks, bufs, crashed>>

\* WavIO::save and WavIO::load called on their own
WavSave(p, samples) ==
  /\ Idle
  /\ LET r == WavIO_save(files[p], p \in Creatable, samples)
     IN /\ files' = [files EXCEPT ![p] = r.file]
        /\ lastCall' = [NoCall EXCEPT !.op = "WavIO::save", !.path = p,
                                      !.data = samples, !.thrown = r.thrown]
  /\ calls' = calls + 1
  /\ UNCHANGED <<tracks, bufs, crashed>>

WavLoad(p) ==
  /\ Idle
  /\ LET r == WavIO_load(files[p])
     IN lastCall' = [NoCall EXCEPT !.op = "WavIO::load", !.path = p,
                                   !.out = r.samples, !.thrown = r.thrown]
  /\ calls' = calls + 1
  /\ UNCHANGED <<tracks, bufs, crashed, files>>

\* write() and deleteRange() of SoundSegment_Simple.cpp
SimpleWrite(t, src, pos) ==
  /\ Idle
  /\ LET r == Simple_write(tracks[t], bufs, src, pos)
     IN /\ r.trk.total_length <= MaxLen
        /\ tracks' = [tracks EXCEPT ![t] = r.trk]
        /\ bufs' = r.heap
  /\ calls' = calls + 1
  /\ lastCall' = [CallOn("Simple::write", t) EXCEPT !.pos = pos,
                                !.data = src, !.len = Len(src)]
  /\ UNCHANGED <<crashed, files>>

SimpleDeleteRange(t, pos, len) ==
  /\ Idle
  /\ LET r == Simple_deleteRange(tracks[t], bufs, pos, len)
     IN /\ tracks' = [tracks EXCEPT ![t] = r.trk]
        /\ bufs' = r.heap
        /\ lastCall' = [CallOn("Simple::deleteRange", t) EXCEPT
                          !.pos = pos, !.len = len, !.ok = r.ret]
  /\ calls' = calls + 1
  /\ UNCHANGED <<crashed, files>>

\* The same call made on a track of SoundSegment.cpp and on its counterpart
\* of SoundSegment_Simple.cpp: track t is mirrored by track Simple(t).
Simple(t) == t + Cardinality(Tracks)

BothWrite(t, src, pos) ==
  /\ Idle
  /\ LET r == write(tracks[t], bufs, src, pos)
         q == Simple_write(tracks[Simple(t)], r.heap, src, pos)
         after == [tracks EXCEPT ![t] = r.trk, ![Simple(t)] = q.trk]
     IN /\ r.trk.total_length <= MaxLen
        /\ q.trk.total_length <= MaxLen
        /\ tracks' = after
        /\ bufs' = Release(q.heap, after)
  /\ calls' = calls + 1
  /\ lastCall' = [CallOn("write", t) EXCEPT !.pos = pos,
                                !.data = src, !.len = Len(src)]
  /\ UNCHANGED <<crashed, files>>

BothDeleteRange(t, pos, len) ==
  /\ Idle
  /\ LET r == deleteRange(tracks[t], bufs, pos, len)
         q == Simple_deleteRange(tracks[Simple(t)], r.heap, pos, len)
         after == [tracks EXCEPT ![t] = r.trk, ![Simple(t)] = q.trk]
     IN /\ tracks' = after
        /\ bufs' = Release(q.heap, after)
        /\ lastCall' = [CallOn("deleteRange", t) EXCEPT
                          !.pos = pos, !.len = len, !.ok = r.ret,
                          !.simple_ok = q.ret]
  /\ calls' = calls + 1
  /\ UNCHANGED <<crashed, files>>

BothInsert(t, s, dest_pos, src_pos, len) ==
  /\ Idle
  /\ LET r == insert(tracks[t], tracks[s], bufs, dest_pos, src_pos, len)
         q == Simple_insert(tracks[Simple(t)], tracks[Simple(s)], r.heap,
                            dest_pos, src_pos, len)
         after == [tracks EXCEPT ![t] = r.trk, ![Simple(t)] = q.trk]
     IN /\ r.trk.total_length <= MaxLen
        /\ q.trk.total_length <= MaxLen
        /\ tracks' = after
        /\ bufs' = Release(q.heap, after)
        /\ crashed' = r.crashed
  /\ calls' = calls + 1
  /\ lastCall' = [CallOn("insert", t) EXCEPT
                    !.src = s, !.pos = dest_pos, !.src_pos = src_pos,
                    !.len = len, !.src_len = tracks[s].total_length]
  /\ UNCHANGED files

\* splitNode() on its own, on a segment of the chain or on no segment
SplitNode(t, node, local_offset) ==
  /\ Idle
  /\ node <= Len(tracks[t].head)
  /\ LET r == splitNode(tracks[t].head, node, local_offset)
     IN /\ tracks' = [tracks EXCEPT ![t].head = r.chain]
        /\ lastCall' = [CallOn("splitNode", t) EXCEPT
                          !.node = node, !.len = local_offset,
                          !.right = r.right, !.ok = (r.right # NULL)]
  /\ calls' = calls + 1
  /\ UNCHANGED <<bufs, crashed, files>>

\* the call returns and the caller goes on to its next statement
Return ==
  /\ ~crashed
  /\ lastCall.op # "none"
  /\ calls < MaxCalls
  /\ lastCall' = NoCall
  /\ UNCHANGED <<tracks, bufs, crashed, calls, files>>

\* a call is made only by a caller that is running and has calls left
Next ==
  \/ Idle /\ \E t \in Tracks, src \in WriteData, pos \in Args : Write(t, src, pos)
  \/ Idle /\ \E t \in Tracks, pos \in Args, len \in Args : DeleteRange(t, pos, len)
  \/ Idle /\ \E t \in Tracks, s \in Tracks, dest_pos \in Args, src_pos \in Args,
                len \in Args : Insert(t, s, dest_pos, src_pos, len)
  \/ Idle /\ \E t \in Tracks, dest \in DestVectors, start_pos \in Args, len \in Args :
                Read(t, dest, start_pos, len)
  \/ Idle /\ \E t \in Tracks, ad \in Tracks : Identify(t, ad)
  \/ Return

Spec == Init /\ [][Next]_vars

\* identify() on the tracks two writes make of a target and a pattern
InitIdentify ==
  \E input \in IdentifyInputs :
    LET target == write(EmptyTrack, <<>>, input[1], 0)
        pattern == write(EmptyTrack, target.heap, input[2], 0)
    IN /\ tracks = <<target.trk, pattern.trk>>
       /\ bufs = pattern.heap
       /\ crashed = FALSE
       /\ lastCall = NoCall
       /\ calls = 0
       /\ files = [p \in Paths |-> NoFile]

NextIdentify == Idle /\ \E t \in Tracks, ad \in Tracks : Identify(t, ad)

SpecIdentify == InitIdentify /\ [][NextIdentify]_vars

\* tracks built by write() and carried through WAV files
NextWav ==
  \/ Idle /\ \E t \in Tracks, src \in WriteData, pos \in 0..1 : Write(t, src, pos)
  \/ Idle /\ \E t \in Tracks, p \in Paths : SaveToWav(t, p)
  \/ Idle /\ \E t \in Tracks, p \in Paths : LoadFromWav(t, p)
  \/ Idle /\ \E p \in Paths, samples \in WavArrays : WavSave(p, samples)
  \/ Idle /\ \E p \in Paths : WavLoad(p)
  \/ Return

SpecWav == Init /\ [][NextWav]_vars

\* mutating calls only, with whole tracks inserted into themselves and into
\* one another
NextGrow ==
  \/ Idle /\ \E t \in Tracks, src \in WriteData, pos \in GrowPositions :
                Write(t, src, pos)
  \/ Idle /\ \E t \in Tracks, pos \in GrowPositions, len \in GrowLengths :
                DeleteRange(t, pos, len)
  \/ Idle /\ \E t \in Tracks, s \in Tracks, dest_pos \in Args : InsertAll(t, s, dest_pos)
  \/ Return

SpecGrow == Init /\ [][NextGrow]_vars

\* deleteRange() with arguments whose sum does not fit a size_t
NextWrap ==
  \/ Idle /\ \E t \in Tracks, src \in WriteData, pos \in Args : Write(t, src, pos)
  \/ Idle /\ \E t \in Tracks, pos \in WrapArgs, len \in WrapArgs :
                DeleteRange(t, pos, len)
  \/ Return

SpecWrap == Init /\ [][NextWrap]_vars

\* the tracks of SoundSegment_Simple.cpp under writes and deletions
NextSimple ==
  \/ Idle /\ \E t \in Tracks, src \in WriteData, pos \in Args : SimpleWrite(t, src, pos)
  \/ Idle /\ \E t \in Tracks, pos \in Args, len \in Args : SimpleDeleteRange(t, pos, len)
  \/ Return

SpecSimple == Init /\ [][NextSimple]_vars

\* chains built by write() and insert(), and splitNode() applied to them
NextSplit ==
  \/ Idle /\ \E t \in Tracks, src \in WriteData, pos \in Args : Write(t, src, pos)
  \/ Idle /\ \E t \in Tracks, s \in Tracks, dest_pos \in Args, src_pos \in Args,
                len \in Args : Insert(t, s, dest_pos, src_pos, len)
  \/ Idle /\ \E t \in Tracks, node \in 0..MaxLen, local_offset \in 1..MaxLen :
                SplitNode(t, node, local_offset)
  \/ Return

SpecSplit == Init /\ [][NextSplit]_vars

\* the two implementations driven by the same calls
InitBoth ==
  /\ tracks = [t \in Tracks \cup {Simple(u) : u \in Tracks} |-> EmptyTrack]
  /\ bufs = <<>>
  /\ crashed = FALSE
  /\ lastCall = NoCall
  /\ calls = 0
  /\ files = [p \in Paths |-> NoFile]

NextBoth ==
  \/ Idle /\ \E t \in Tracks, src \in WriteData, pos \in Args : BothWrite(t, src, pos)
  \/ Idle /\ \E t \in Tracks, pos \in Args, len \in Args : BothDeleteRange(t, pos, len)
  \/ Idle /\ \E t \in Tracks, s \in Tracks, dest_pos \in Args, src_pos \in Args,
                len \in Args : BothInsert(t, s, dest_pos, src_pos, len)
  \/ Return

SpecBoth == InitBoth /\ [][NextBoth]_vars

\* ------------------------------------------------------------------ claims
\* The flattened content of a track: each node's window of its buffer, in
\* chain order.
Window(node, heap) ==
  SubSeq(heap[node.data], node.offset + 1, node.offset + node.length)

RECURSIVE FlatChain(_, _)
FlatChain(chain, heap) ==
  IF chain = <<>> THEN <<>>
  ELSE Window(Head(chain), heap) \o FlatChain(Tail(chain), heap)

Content(t) == FlatChain(tracks[t].head, bufs)
ContentAfter(t) == FlatChain(tracks'[t].head, bufs')

\* the n elements of seq from 0-based position from
Slice(seq, from, n) == SubSeq(seq, from + 1, from + n)

Max(a, b) == IF a > b THEN a ELSE b

\* C1: round trip.  After write(S, 0) on any layout, read(0, len(S)) gives
\* exactly S, whatever the caller's vector held, and on an empty track
\* length() becomes len(S).
C1_RoundTrip ==
  [][(lastCall'.op = "write" /\ lastCall'.pos = 0) =>
       LET t == lastCall'.dst
           S == lastCall'.data
       IN /\ \A dest \in DestVectors :
               read(tracks'[t], bufs', dest, 0, Len(S)) = S
          /\ (tracks[t].total_length = 0 => tracks'[t].total_length = Len(S))]_vars

\* a write at 0 whose samples cross the boundary of two existing segments
C1_Witness ==
  /\ lastCall.op = "write" /\ lastCall.pos = 0
  /\ lastCall.pre_segs >= 2
  /\ tracks[lastCall.dst].head[1].length < Len(lastCall.data)

\* C2: extension with gap.  A non-empty S written at pos > length L makes
\* the length pos+len(S), zero in [L, pos), S in [pos, pos+len(S)) and the
\* old samples in [0, L).
C2_ExtensionWithGap ==
  [][(/\ lastCall'.op = "write"
      /\ Len(lastCall'.data) > 0
      /\ lastCall'.pos > tracks[lastCall'.dst].total_length) =>
       LET t == lastCall'.dst
           S == lastCall'.data
           pos == lastCall'.pos
           L == tracks[t].total_length
           new == ContentAfter(t)
       IN /\ tracks'[t].total_length = pos + Len(S)
          /\ Len(new) = pos + Len(S)
          /\ \A i \in L..(pos - 1) : new[i + 1] = 0
          /\ Slice(new, pos, Len(S)) = S
          /\ Slice(new, 0, L) = Content(t)]_vars

\* a write past the end of a track that already held samples
C2_Witness ==
  /\ lastCall.op = "write" /\ Len(lastCall.data) > 0
  /\ lastCall.pre_len > 0
  /\ lastCall.pos > lastCall.pre_len

\* C3: delete correctness.  deleteRange(pos, len) with pos+len <= length
\* returns true, leaves C[0..pos) ++ C[pos+len..) and a length smaller by len.
C3_DeleteCorrect ==
  [][(/\ lastCall'.op = "deleteRange"
      /\ lastCall'.pos + lastCall'.len <= tracks[lastCall'.dst].total_length) =>
       LET t == lastCall'.dst
           pos == lastCall'.pos
           len == lastCall'.len
           C == Content(t)
       IN /\ lastCall'.ok
          /\ ContentAfter(t) = Slice(C, 0, pos) \o Slice(C, pos + len, Len(C) - pos - len)
          /\ tracks'[t].total_length = tracks[t].total_length - len]_vars

\* a deletion in a chain of three segments that leaves the two halves of a
\* split segment, which share their buffer
C3_Witness ==
  /\ lastCall.op = "deleteRange" /\ lastCall.ok /\ lastCall.len > 0
  /\ lastCall.pre_segs = 3
  /\ Len(tracks[lastCall.dst].head) = 2
  /\ tracks[lastCall.dst].head[1].data = tracks[lastCall.dst].head[2].data

\* C4: delete out of range.  deleteRange(pos, len) with pos+len > length
\* returns false and changes neither a chain, nor an offset, nor a sample.
C4_DeleteOutOfRange ==
  [][(/\ lastCall'.op = "deleteRange"
      /\ lastCall'.pos + lastCall'.len > tracks[lastCall'.dst].total_length) =>
       /\ ~lastCall'.ok
       /\ tracks' = tracks
       /\ bufs' = bufs]_vars

\* a refused deletion that starts inside a track of several segments
C4_Witness ==
  /\ lastCall.op = "deleteRange" /\ ~lastCall.ok
  /\ lastCall.pos < lastCall.pre_len
  /\ lastCall.pos + lastCall.len > lastCall.pre_len
  /\ lastCall.pre_segs >= 2

\* C5: insert correctness.  With dest_pos <= len(D) and src_pos+len <= len(S)
\* the destination becomes D[0..dest_pos) ++ S[src_pos..src_pos+len) ++
\* D[dest_pos..) and its length len(D)+len.
C5_InsertCorrect ==
  [][(/\ lastCall'.op = "insert"
      /\ lastCall'.pos <= tracks[lastCall'.dst].total_length
      /\ lastCall'.src_pos + lastCall'.len <= tracks[lastCall'.src].total_length) =>
       LET t == lastCall'.dst
           dest_pos == lastCall'.pos
           src_pos == lastCall'.src_pos
           len == lastCall'.len
           D == Content(t)
           S == Content(lastCall'.src)
       IN /\ ~crashed'
          /\ ContentAfter(t) = Slice(D, 0, dest_pos) \o Slice(S, src_pos, len)
                                 \o Slice(D, dest_pos, Len(D) - dest_pos)
          /\ tracks'[t].total_length = Len(D) + len]_vars

\* an insert from another track into the middle of a segment, which is split
C5_Witness ==
  /\ lastCall.op = "insert" /\ lastCall.dst # lastCall.src
  /\ lastCall.len > 0
  /\ lastCall.src_pos + lastCall.len <= lastCall.src_len
  /\ lastCall.pos > 0 /\ lastCall.pos < lastCall.pre_len
  /\ Len(tracks[lastCall.dst].head) = lastCall.pre_segs + 2

\* C6: insert atomicity.  An insert() that returns has either inserted all
\* len samples of [src_pos, src_pos+len) or left the destination unchanged.
C6_InsertAtomic ==
  [][(lastCall'.op = "insert" /\ ~crashed') =>
       LET t == lastCall'.dst
           at == Min(lastCall'.pos, tracks[t].total_length)
           src_pos == lastCall'.src_pos
           len == lastCall'.len
           D == Content(t)
           S == Content(lastCall'.src)
       IN \/ /\ src_pos + len <= Len(S)
             /\ ContentAfter(t) = Slice(D, 0, at) \o Slice(S, src_pos, len)
                                    \o Slice(D, at, Len(D) - at)
          \/ /\ tracks'[t] = tracks[t]
             /\ ContentAfter(t) = D]_vars

\* C7: read past the end.  read(dest, pos, len) into a vector returns
\* min(len, max(0, length - pos)) samples.
C7_ReadCount ==
  lastCall.op = "read" =>
    Len(lastCall.out) =
      Min(lastCall.len, Max(0, tracks[lastCall.dst].total_length - lastCall.pos))

\* C8: read in range.  With pos+len <= length, read(pos, len) returns
\* C[pos..pos+len), C being the windows of the segments in chain order.
C8_ReadInRange ==
  (/\ lastCall.op = "read"
   /\ lastCall.pos + lastCall.len <= tracks[lastCall.dst].total_length) =>
     lastCall.out = Slice(Content(lastCall.dst), lastCall.pos, lastCall.len)

\* a read of three or more samples over a chain of three segments, into a
\* vector that held other data
C8_Witness ==
  /\ lastCall.op = "read" /\ lastCall.len >= 3 /\ lastCall.data # <<>>
  /\ lastCall.pos + lastCall.len <= tracks[lastCall.dst].total_length
  /\ Len(tracks[lastCall.dst].head) >= 3

\* the sum of the lengths of the first k nodes of a chain
RECURSIVE LengthOfFirst(_, _)
LengthOfFirst(chain, k) ==
  IF k = 0 THEN 0 ELSE LengthOfFirst(chain, k - 1) + chain[k].length

\* C9: tiling.  After any calls that returned, each node's global_start is
\* the sum of the lengths before it, total_length is the sum of all lengths
\* and recomputing the offsets changes nothing.
C9_Tiling ==
  ~crashed =>
    \A t \in Tracks :
      LET chain == tracks[t].head
      IN /\ \A i \in 1..Len(chain) :
              chain[i].global_start = LengthOfFirst(chain, i - 1)
         /\ tracks[t].total_length = LengthOfFirst(chain, Len(chain))
         /\ updateGlobalIndices(chain) = tracks[t]

\* a deletion at the head of a chain that keeps two or more segments, whose
\* offsets all move
C9_Witness ==
  /\ lastCall.op = "deleteRange" /\ lastCall.ok
  /\ lastCall.pos = 0 /\ lastCall.len > 0
  /\ Len(tracks[lastCall.dst].head) >= 2

\* the scan of C10: matches of pattern P in target T from window start i on
RECURSIVE DotProduct(_, _, _, _)
DotProduct(T, P, i, m) ==
  IF m = 0 THEN 0 ELSE DotProduct(T, P, i, m - 1) + T[i + m] * P[m]

RECURSIVE GreedyScan(_, _, _)
GreedyScan(T, P, i) ==
  IF i + Len(P) > Len(T) THEN <<>>
  ELSE IF 20 * DotProduct(T, P, i, Len(P)) >= 19 * DotProduct(P, P, 0, Len(P))
       THEN <<<<i, i + Len(P) - 1>>>> \o GreedyScan(T, P, i + Len(P))
       ELSE GreedyScan(T, P, i + 1)

\* the text "s,e" of each match, the matches separated by line feeds
RECURSIVE MatchText(_)
MatchText(matches) ==
  IF matches = <<>> THEN <<>>
  ELSE <<ToString(Head(matches)[1]), ",", ToString(Head(matches)[2])>>
         \o (IF Tail(matches) = <<>> THEN <<>>
             ELSE <<"\n">> \o MatchText(Tail(matches)))

\* C10: identify(target, pattern) with n >= m > 0 returns the matches of the
\* greedy scan; the pair of the test gives (3,5),(9,11).
C10_IdentifyGreedy ==
  lastCall.op = "identify" =>
    LET T == Content(lastCall.dst)
        P == Content(lastCall.src)
    IN /\ (Len(T) >= Len(P) /\ Len(P) > 0) =>
             lastCall.out = MatchText(GreedyScan(T, P, 0))
       /\ (T = ExampleTarget /\ P = ExamplePattern) =>
             lastCall.out = <<"3", ",", "5", "\n", "9", ",", "11">>

\* two adjacent matches of a two-sample pattern in a target of four samples
C10_Witness ==
  /\ lastCall.op = "identify"
  /\ Len(Content(lastCall.src)) = 2
  /\ Len(lastCall.out) = 7
  /\ lastCall.out[1] = "0" /\ lastCall.out[5] = "2"

\* the matches a returned text lists: the number each "s" and "e" prints
ParseNat(text) == CHOOSE n \in 0..Len(ExampleTarget) : ToString(n) = text

MatchesOf(out) ==
  [k \in 1..((Len(out) + 1) \div 4) |->
     <<ParseNat(out[4 * k - 3]), ParseNat(out[4 * k - 1])>>]

\* C11: shape of the match list.  Every match (s, e) identify returns has
\* e - s + 1 = pattern length and e < target length, and each match ends
\* before the next one starts.
C11_MatchShape ==
  lastCall.op = "identify" =>
    LET T == Content(lastCall.dst)
        P == Content(lastCall.src)
        M == MatchesOf(lastCall.out)
    IN /\ \A k \in 1..Len(M) :
            /\ M[k][2] - M[k][1] + 1 = Len(P)
            /\ M[k][2] < Len(T)
       /\ \A k \in 1..(Len(M) - 1) : M[k][2] < M[k + 1][1]

\* the two separated matches of the three-sample pattern of the test
C11_Witness ==
  /\ lastCall.op = "identify"
  /\ Content(lastCall.dst) = ExampleTarget
  /\ Content(lastCall.src) = ExamplePattern
  /\ Len(MatchesOf(lastCall.out)) = 2

\* C12: identify returns the empty text, and reads no sample, when the
\* target is empty, the pattern is empty, or the target is shorter than the
\* pattern.
C12_IdentifyEmpty ==
  (/\ lastCall.op = "identify"
   /\ \/ tracks[lastCall.dst].total_length = 0
      \/ tracks[lastCall.src].total_length = 0
      \/ tracks[lastCall.dst].total_length < tracks[lastCall.src].total_length) =>
     /\ lastCall.out = <<>>
     /\ lastCall.reads = 0

\* a target that holds samples, but fewer than the pattern
C12_Witness ==
  /\ lastCall.op = "identify"
  /\ tracks[lastCall.dst].total_length > 0
  /\ tracks[lastCall.dst].total_length < tracks[lastCall.src].total_length
  /\ lastCall.out = <<>>

\* C13: no zero-length segment.  After any calls that returned, every
\* segment of every chain has a length above 0: a segment whose samples are
\* all deleted is unlinked by the same call.
C13_NoEmptySegment ==
  ~crashed =>
    \A t \in Tracks : \A i \in 1..Len(tracks[t].head) :
      tracks[t].head[i].length > 0

\* a deletion inside a chain of three segments that took every sample of the
\* middle one and left a segment on either side
C13_Witness ==
  /\ lastCall.op = "deleteRange" /\ lastCall.ok
  /\ lastCall.pre_segs = 3
  /\ Len(tracks[lastCall.dst].head) = 2
  /\ lastCall.pos > 0
  /\ lastCall.pos + lastCall.len < lastCall.pre_len
  /\ lastCall.len >= 2

\* the segments of all chains that refer to buffer b and carry the owner flag
OwnersOf(b) ==
  {<<t, i>> \in Tracks \X (1..(2 * MaxLen)) :
     /\ i <= Len(tracks[t].head)
     /\ tracks[t].head[i].data = b
     /\ tracks[t].head[i].is_buffer_owner}

\* C14: single ownership.  Every buffer a segment of a chain refers to has
\* exactly one segment referring to it whose is_buffer_owner flag is set.
C14_SingleOwner ==
  ~crashed => \A b \in Referenced(tracks) : Cardinality(OwnersOf(b)) = 1

\* the buffers the segments of track t refer to
BuffersOf(trks, t) == {trks[t].head[i].data : i \in 1..Len(trks[t].head)}

\* C15: defensive-copy isolation.  No call leaves a buffer that segments of
\* two tracks refer to, and a write or deleteRange on one track leaves the
\* flattened content of the other unchanged.
C15_Isolation ==
  [][~crashed' =>
       /\ \A t \in Tracks, u \in Tracks :
            t # u => BuffersOf(tracks', t) \cap BuffersOf(tracks', u) = {}
       /\ lastCall'.op \in {"write", "deleteRange"} =>
            \A u \in Tracks \ {lastCall'.dst} : ContentAfter(u) = Content(u)]_vars

\* a write over the samples of the source that an earlier insert copied into
\* the other track (two samples of <<4, 5, 6>>), which keeps them
C15_Witness ==
  /\ lastCall.op = "write" /\ lastCall.pos = 0 /\ lastCall.data = <<2, 3>>
  /\ lastCall.pre_len = 3
  /\ Content(lastCall.dst) = <<2, 3, 6>>
  /\ \E u \in Tracks \ {lastCall.dst} : Content(u) = <<4, 5>>

\* C16: WAV round trip.  load of the file save has written for an array A
\* returns A, whatever the length of A, and loadFromWav into a fresh track of
\* the file saveToWav has written gives the length and samples of the track.
C16_WavRoundTrip ==
  [][/\ (lastCall'.op = "WavIO::save" /\ ~lastCall'.thrown) =>
          WavIO_load(files'[lastCall'.path]) =
            [thrown |-> FALSE, samples |-> lastCall'.data]
     /\ (lastCall'.op = "saveToWav" /\ ~lastCall'.thrown) =>
          LET t == lastCall'.dst
              fresh == loadFromWav(EmptyTrack, <<>>, files'[lastCall'.path])
          IN /\ ~fresh.thrown
             /\ fresh.trk.total_length = tracks[t].total_length
             /\ FlatChain(fresh.trk.head, fresh.heap) = Content(t)]_vars

\* C17: I/O failure is reported.  loadFromWav of a file that cannot be
\* opened and saveToWav to a path that cannot be created both leave by an
\* exception, with every track, buffer and file as before.
C17_IoFailureReported ==
  [][/\ (lastCall'.op = "loadFromWav" /\ ~files[lastCall'.path].exists) =>
          /\ lastCall'.thrown
          /\ tracks' = tracks /\ bufs' = bufs /\ files' = files
     /\ (lastCall'.op = "saveToWav" /\ lastCall'.path \notin Creatable) =>
          /\ lastCall'.thrown
          /\ tracks' = tracks /\ bufs' = bufs /\ files' = files]_vars

\* loadFromWav of a file that is not there, into a track of two segments
C17_Witness ==
  /\ lastCall.op = "loadFromWav" /\ lastCall.thrown
  /\ ~files[lastCall.path].exists
  /\ Len(tracks[lastCall.dst].head) = 2

\* C18, as claimed: after k mutating calls every chain has at most 2*k
\* segments.
C18_SegmentBoundLinear ==
  ~crashed => \A t \in Tracks : Len(tracks[t].head) <= 2 * calls

\* C18, amended: after k mutating calls every chain has at most 2^k - 1
\* segments, however many samples it holds.
C18_SegmentBound ==
  ~crashed => \A t \in Tracks : Len(tracks[t].head) <= 2 ^ calls - 1

\* three calls that leave a chain of seven segments
C18_Witness ==
  /\ ~crashed /\ calls = 3
  /\ \E t \in Tracks : Len(tracks[t].head) = 7

\* C19: range check under machine arithmetic.  For size_t arguments pos and
\* len whose true sum exceeds the length, also when the sum computed modulo
\* 2^SizeBits does not, deleteRange returns false and changes nothing.
C19_RangeCheckWraps ==
  [][(/\ lastCall'.op = "deleteRange"
      /\ lastCall'.pos \in 0..(SizeMod - 1)
      /\ lastCall'.len \in 0..(SizeMod - 1)
      /\ lastCall'.pos + lastCall'.len > tracks[lastCall'.dst].total_length) =>
       /\ lastCall'.ok = FALSE
       /\ tracks'[lastCall'.dst] = tracks[lastCall'.dst]
       /\ Content(lastCall'.dst) = ContentAfter(lastCall'.dst)]_vars

\* C20: all-or-nothing deletion in the Simple implementation.  When its
\* deleteRange(pos, len) returns true the content is C[0..pos) ++ C[pos+len..)
\* and the length smaller by len; when it returns false nothing has changed.
C20_SimpleDeleteAllOrNothing ==
  [][lastCall'.op = "Simple::deleteRange" =>
       LET t == lastCall'.dst
           pos == lastCall'.pos
           len == lastCall'.len
           C == Content(t)
       IN IF lastCall'.ok
          THEN /\ ContentAfter(t) =
                    Slice(C, 0, pos) \o Slice(C, pos + len, Len(C) - pos - len)
               /\ tracks'[t].total_length = tracks[t].total_length - len
          ELSE tracks' = tracks /\ bufs' = bufs]_vars

\* the arguments of the call just made are in range
InRangeCall(call, trks) ==
  \/ call.op = "write" /\ call.pos <= trks[call.dst].total_length
  \/ /\ call.op = "deleteRange"
     /\ call.pos + call.len <= trks[call.dst].total_length
  \/ /\ call.op = "insert"
     /\ call.pos <= trks[call.dst].total_length
     /\ call.src_pos + call.len <= trks[call.src].total_length

\* C21: the two implementations are observationally equivalent.  From tracks
\* that agree, the same write, deleteRange or insert with in-range arguments
\* gives the same return value, the same length() and the same samples.
C21_Equivalent ==
  [][(/\ InRangeCall(lastCall', tracks)
      /\ \A t \in Tracks : Content(t) = Content(Simple(t))) =>
       /\ lastCall'.ok = lastCall'.simple_ok
       /\ \A t \in Tracks :
            /\ tracks'[t].total_length = tracks'[Simple(t)].total_length
            /\ ContentAfter(t) = ContentAfter(Simple(t))]_vars

\* C22: deletion is never refused for dependency reasons.  No segment of any
\* chain ever has a non-expired child, and every deleteRange(pos, len) with
\* pos + len <= total_length returns true, also on a range that insert has
\* copied into another sequence.
C22_NeverRefused ==
  [][/\ \A t \in Tracks : \A i \in 1..Len(tracks'[t].head) :
          ~hasActiveChildren(tracks'[t].head[i])
     /\ (lastCall'.op = "deleteRange"
           /\ lastCall'.pos + lastCall'.len <= tracks[lastCall'.dst].total_length)
          => lastCall'.ok]_vars

\* a source track holding {2,3} was deleted whole after insert had copied its
\* first sample into the other track (three calls: write, insert, deleteRange;
\* no write leaves the content {2})
C22_Witness ==
  /\ lastCall.op = "deleteRange" /\ lastCall.ok /\ calls = 3
  /\ lastCall.pos = 0 /\ lastCall.len = 2
  /\ tracks[lastCall.dst].total_length = 0
  /\ \E u \in Tracks \ {lastCall.dst} : Content(u) = <<2>>

\* C23, as stated: write extends whenever the end passes the current length.
\* For every S, the empty array included, and every pos with
\* pos + len(S) > total_length, write(S, pos) makes the length pos + len(S)
\* and every new position not covered by S reads 0.
C23_WriteExtendsAlways ==
  [][(/\ lastCall'.op = "write"
      /\ lastCall'.pos + Len(lastCall'.data) > tracks[lastCall'.dst].total_length) =>
       LET t == lastCall'.dst
           S == lastCall'.data
           pos == lastCall'.pos
           L == tracks[t].total_length
           new == ContentAfter(t)
       IN /\ tracks'[t].total_length = pos + Len(S)
          /\ Len(new) = pos + Len(S)
          /\ \A i \in L..(pos + Len(S) - 1) :
               (i < pos \/ i >= pos + Len(S)) => new[i + 1] = 0]_vars

\* C23, amended: the same for every non-empty S; a write of the empty array
\* changes nothing, wherever pos lies.
C23_WriteExtends ==
  [][(lastCall'.op = "write") =>
       LET t == lastCall'.dst
           S == lastCall'.data
           pos == lastCall'.pos
           L == tracks[t].total_length
           new == ContentAfter(t)
       IN /\ (S = <<>>) => tracks'[t] = tracks[t] /\ new = Content(t)
          /\ (S # <<>> /\ pos + Len(S) > L) =>
               /\ tracks'[t].total_length = pos + Len(S)
               /\ Len(new) = pos + Len(S)
               /\ \A i \in L..(pos + Len(S) - 1) :
                    (i < pos \/ i >= pos + Len(S)) => new[i + 1] = 0]_vars

\* a non-empty write that starts inside the track and ends past its end
C23_Witness ==
  /\ lastCall.op = "write" /\ Len(lastCall.data) >= 2
  /\ lastCall.pre_len > 0
  /\ lastCall.pos < lastCall.pre_len
  /\ lastCall.pos + Len(lastCall.data) > lastCall.pre_len

\* the segments of all chains, as (track, index) pairs
SegmentsOf(trks) ==
  {<<t, i>> \in Tracks \X (1..(2 * MaxLen + 1)) : i <= Len(trks[t].head)}

\* C24: windows stay inside their buffer and do not overlap.  Every segment
\* has offset + length <= the size of its buffer, two distinct segments on
\* the same buffer have disjoint windows, and so a write or a deleteRange in
\* range changes no sample outside the range it was given.
C24_DisjointWindows ==
  [][/\ \A a \in SegmentsOf(tracks') :
          LET n == tracks'[a[1]].head[a[2]]
          IN /\ n.offset + n.length <= Len(bufs'[n.data])
             /\ \A b \in SegmentsOf(tracks') \ {a} :
                  LET m == tracks'[b[1]].head[b[2]]
                  IN n.data = m.data =>
                       \/ n.offset + n.length <= m.offset
                       \/ m.offset + m.length <= n.offset
     /\ (/\ lastCall'.op = "write"
         /\ lastCall'.pos + Len(lastCall'.data) <= tracks[lastCall'.dst].total_length) =>
          LET C == Content(lastCall'.dst)
              new == ContentAfter(lastCall'.dst)
              pos == lastCall'.pos
              len == Len(lastCall'.data)
          IN /\ Len(new) = Len(C)
             /\ \A i \in 1..Len(C) : (i <= pos \/ i > pos + len) => new[i] = C[i]
     /\ (/\ lastCall'.op = "deleteRange"
         /\ lastCall'.pos + lastCall'.len <= tracks[lastCall'.dst].total_length) =>
          LET C == Content(lastCall'.dst)
              new == ContentAfter(lastCall'.dst)
              pos == lastCall'.pos
              len == lastCall'.len
          IN /\ Slice(new, 0, pos) = Slice(C, 0, pos)
             /\ Slice(new, pos, Len(C) - pos - len) =
                  Slice(C, pos + len, Len(C) - pos - len)]_vars

\* a write that went through two segments which share one buffer (the halves
\* of a split) and through the segment between them
C24_Witness ==
  /\ lastCall.op = "write"
  /\ \E i, j \in 1..Len(tracks[lastCall.dst].head) :
       LET n == tracks[lastCall.dst].head[i]
           m == tracks[lastCall.dst].head[j]
       IN /\ i < j /\ n.data = m.data
          /\ lastCall.pos < n.global_start + n.length
          /\ m.global_start < lastCall.pos + Len(lastCall.data)

\* C25: insert at or past the end appends.  insert with dest_pos >= the
\* destination's length and a source range inside the source leaves
\* D ++ S[src_pos .. src_pos+len), without a gap or zeros, and a length
\* larger by exactly len, in both implementations.
C25_InsertAppends ==
  [][(lastCall'.op = "insert") =>
       \A impl \in {0, Cardinality(Tracks)} :
         LET d == lastCall'.dst + impl
             s == lastCall'.src + impl
         IN (/\ lastCall'.pos >= tracks[d].total_length
             /\ lastCall'.src_pos + lastCall'.len <= tracks[s].total_length) =>
              /\ ContentAfter(d) =
                   Content(d) \o Slice(Content(s), lastCall'.src_pos, lastCall'.len)
              /\ tracks'[d].total_length = tracks[d].total_length + lastCall'.len
              /\ ~crashed']_vars

\* an insert of two samples at a position beyond the end of a destination
\* that held samples, in both implementations
C25_Witness ==
  /\ lastCall.op = "insert" /\ lastCall.len = 2
  /\ lastCall.pre_len > 0 /\ lastCall.pos > lastCall.pre_len
  /\ lastCall.src_pos + lastCall.len <= lastCall.src_len
  /\ \A d \in {lastCall.dst, Simple(lastCall.dst)} :
       tracks[d].total_length = lastCall.pre_len + 2

\* C26: self-insert.  A sequence with content C inserted into itself, with
\* src_pos + len <= len(C) and dest_pos <= len(C), becomes
\* C[0..dest_pos) ++ C[src_pos..src_pos+len) ++ C[dest_pos..), every sample
\* taken from C as it was before the call.
C26_SelfInsert ==
  [][(/\ lastCall'.op = "insert"
      /\ lastCall'.src = lastCall'.dst
      /\ lastCall'.src_pos + lastCall'.len <= tracks[lastCall'.dst].total_length
      /\ lastCall'.pos <= tracks[lastCall'.dst].total_length) =>
       LET C == Content(lastCall'.dst)
           dest_pos == lastCall'.pos
       IN /\ ~crashed'
          /\ ContentAfter(lastCall'.dst) =
               Slice(C, 0, dest_pos)
                 \o Slice(C, lastCall'.src_pos, lastCall'.len)
                 \o Slice(C, dest_pos, Len(C) - dest_pos)]_vars

\* a self-insert whose destination lies strictly inside the copied range
C26_Witness ==
  /\ lastCall.op = "insert" /\ lastCall.src = lastCall.dst
  /\ lastCall.src_pos < lastCall.pos
  /\ lastCall.pos < lastCall.src_pos + lastCall.len
  /\ lastCall.src_pos + lastCall.len <= lastCall.pre_len
  /\ tracks[lastCall.dst].total_length = lastCall.pre_len + lastCall.len

\* C27: an exact occurrence is never missed entirely.  When the target holds
\* a contiguous copy of the (non-empty) pattern from index p on, identify
\* returns a match (s, e) with s <= p <= e, so the result is not empty.
C27_ExactNotMissed ==
  lastCall.op = "identify" =>
    LET T == Content(lastCall.dst)
        P == Content(lastCall.src)
        M == MatchesOf(lastCall.out)
    IN \A p \in 0..(Len(T) - Len(P)) :
         (Len(P) > 0 /\ Slice(T, p, Len(P)) = P) =>
           /\ lastCall.out # <<>>
           /\ \E k \in 1..Len(M) : M[k][1] <= p /\ p <= M[k][2]

\* a copy of a two-sample pattern that is not itself reported: the match
\* before it overlaps it
C27_Witness ==
  /\ lastCall.op = "identify"
  /\ Len(Content(lastCall.src)) = 2
  /\ \E p \in 1..(Len(Content(lastCall.dst)) - 2) :
       /\ Slice(Content(lastCall.dst), p, 2) = Content(lastCall.src)
       /\ \A k \in 1..Len(MatchesOf(lastCall.out)) :
            MatchesOf(lastCall.out)[k][1] # p
       /\ \E k \in 1..Len(MatchesOf(lastCall.out)) :
            MatchesOf(lastCall.out)[k][2] = p

\* C28: zero-energy pattern.  For a non-empty pattern of zeros only and a
\* target of n >= m samples, identify reports the matches starting at
\* 0, m, 2m, ... while start + m <= n, floor(n/m) of them, whatever the
\* target holds.
C28_ZeroPattern ==
  (/\ lastCall.op = "identify"
   /\ Len(Content(lastCall.src)) > 0
   /\ \A j \in 1..Len(Content(lastCall.src)) : Content(lastCall.src)[j] = 0
   /\ Len(Content(lastCall.dst)) >= Len(Content(lastCall.src))) =>
     LET n == Len(Content(lastCall.dst))
         m == Len(Content(lastCall.src))
     IN MatchesOf(lastCall.out) =
          [k \in 1..(n \div m) |-> <<(k - 1) * m, k * m - 1>>]

\* the pattern {0, 0} against three samples none of which is 0: one match,
\* the last sample left over
C28_Witness ==
  /\ lastCall.op = "identify"
  /\ Content(lastCall.src) = <<0, 0>>
  /\ Len(Content(lastCall.dst)) = 3
  /\ \A i \in 1..3 : Content(lastCall.dst)[i] # 0
  /\ lastCall.out = <<"0", ",", "1">>

\* what loadFromWav leaves of a track with content C given a file holding F:
\* F over the first samples, the old samples after them
LoadedOver(C, F) == F \o Slice(C, Len(F), Len(C) - Len(F))

\* C29, as stated: loadFromWav overwrites, it does not replace.  A file of n
\* samples loaded on a track of L samples gives length max(L, n), the file's
\* samples first and the old samples in [n, L); the content equals the
\* file's samples only on a track that was empty.
C29_LoadOverwritesOnlyEmpty ==
  [][(lastCall'.op = "loadFromWav" /\ ~lastCall'.thrown) =>
       LET t == lastCall'.dst
           C == Content(t)
           F == WavIO_load(files[lastCall'.path]).samples
       IN /\ tracks'[t].total_length = Max(Len(C), Len(F))
          /\ ContentAfter(t) = LoadedOver(C, F)
          /\ (ContentAfter(t) = F) => Len(C) = 0]_vars

\* C29, amended: the same length and samples; the content equals the file's
\* samples exactly when L <= n.
C29_LoadOverwrites ==
  [][(lastCall'.op = "loadFromWav" /\ ~lastCall'.thrown) =>
       LET t == lastCall'.dst
           C == Content(t)
           F == WavIO_load(files[lastCall'.path]).samples
       IN /\ tracks'[t].total_length = Max(Len(C), Len(F))
          /\ ContentAfter(t) = LoadedOver(C, F)
          /\ (ContentAfter(t) = F) <=> (Len(C) <= Len(F))]_vars

\* a file of one sample loaded on a track of three: the last two stay
C29_Witness ==
  /\ lastCall.op = "loadFromWav" /\ ~lastCall.thrown
  /\ lastCall.pre_len = 3
  /\ WavIO_load(files[lastCall.path]).samples = <<-1>>
  /\ Content(lastCall.dst) = <<-1, 5, 6>>

\* C30: every operation completes.  In every reachable state and for every
\* combination of arguments, a call of read, write, deleteRange, insert or
\* identify ends without dereferencing a missing segment, insert with a
\* source range outside the source and deleteRange(total_length, 0) included.
C30_EveryCallCompletes ==
  [][(lastCall'.op \in {"read", "write", "deleteRange", "insert", "identify"}) =>
       /\ ~crashed'
       /\ (lastCall'.op = "deleteRange" /\ lastCall'.len = 0
             /\ lastCall'.pos = tracks[lastCall'.dst].total_length) =>
            lastCall'.ok /\ tracks' = tracks]_vars

\* C31: insert does not touch the source.  When source and destination are
\* different sequences, insert leaves the source's content, length and chain
\* (segment count, buffers, offsets, lengths, global_start values, parent
\* and child sets) as they were before the call.
C31_SourceUntouched ==
  [][(lastCall'.op = "insert" /\ lastCall'.src # lastCall'.dst) =>
       /\ tracks'[lastCall'.src] = tracks[lastCall'.src]
       /\ ContentAfter(lastCall'.src) = Content(lastCall'.src)]_vars

\* an insert into an empty track of two samples that lie in two segments of
\* the source
C31_Witness ==
  /\ lastCall.op = "insert" /\ lastCall.src # lastCall.dst
  /\ lastCall.src_pos = 0 /\ lastCall.len = 2 /\ lastCall.pre_len = 0
  /\ Len(tracks[lastCall.src].head) = 2
  /\ Len(tracks[lastCall.dst].head) = 2
  /\ Content(lastCall.dst) = Content(lastCall.src)

\* C32: an in-range write is in place.  write(S, pos) with len(S) > 0 and
\* pos + len(S) <= total_length leaves the length, the number of segments and
\* every segment's buffer, offset, length and global_start as they were,
\* makes positions [pos, pos+len(S)) equal to S, across segment boundaries
\* too, and leaves every other position as it was.
C32_WriteInPlace ==
  [][(/\ lastCall'.op = "write"
      /\ Len(lastCall'.data) > 0
      /\ lastCall'.pos + Len(lastCall'.data) <= tracks[lastCall'.dst].total_length) =>
       LET t == lastCall'.dst
           S == lastCall'.data
           pos == lastCall'.pos
           C == Content(t)
       IN /\ tracks'[t].total_length = tracks[t].total_length
          /\ Len(tracks'[t].head) = Len(tracks[t].head)
          /\ \A i \in 1..Len(tracks[t].head) :
               tracks'[t].head[i] = tracks[t].head[i]
          /\ ContentAfter(t) =
               Slice(C, 0, pos) \o S
                 \o Slice(C, pos + Len(S), Len(C) - pos - Len(S))]_vars

\* a write inside a chain of three segments that starts in the first, covers
\* the second and ends in the third
C32_Witness ==
  /\ lastCall.op = "write"
  /\ lastCall.pre_segs = 3 /\ Len(tracks[lastCall.dst].head) = 3
  /\ lastCall.pos + Len(lastCall.data) <= lastCall.pre_len
  /\ lastCall.pos < tracks[lastCall.dst].head[2].global_start
  /\ lastCall.pos + Len(lastCall.data) > tracks[lastCall.dst].head[3].global_start

\* what a write that extends leaves of the chain: on a track that held
\* samples, the old segments followed by one owned segment over a fresh
\* buffer of exactly the missing length, zero wherever S does not cover it;
\* on an empty track, one owned segment of length pos + len(S)
ExtendedByOne(t, S, pos) ==
  LET old == tracks[t].head
      new == tracks'[t].head
      L == tracks[t].total_length
      tail == new[Len(new)]
  IN /\ Len(new) = Len(old) + 1
     /\ \A i \in 1..Len(old) :
          /\ new[i].data = old[i].data
          /\ new[i].offset = old[i].offset
          /\ new[i].length = old[i].length
     /\ tail.is_buffer_owner
     /\ tail.offset = 0
     /\ tail.length = pos + Len(S) - L
     /\ Len(bufs'[tail.data]) = tail.length
     /\ \A i \in 1..Len(old) : old[i].data # tail.data
     /\ \A k \in 1..tail.length :
          (L + k - 1 < pos) => bufs'[tail.data][k] = 0

\* C33, as stated: write extension adds exactly one tail segment.  Whenever
\* write(S, pos) has pos + len(S) > total_length, a non-empty sequence gets
\* exactly one new owned zero-filled tail segment of length
\* pos + len(S) - total_length, its segments keeping buffer, offset and
\* length, and an empty sequence becomes one owned segment of length
\* pos + len(S).
C33_OneTailSegmentAlways ==
  [][(/\ lastCall'.op = "write"
      /\ lastCall'.pos + Len(lastCall'.data) > tracks[lastCall'.dst].total_length) =>
       ExtendedByOne(lastCall'.dst, lastCall'.data, lastCall'.pos)]_vars

\* C33, amended: the same for every non-empty S; a write of the empty array
\* adds no segment.
C33_OneTailSegment ==
  [][(lastCall'.op = "write") =>
       /\ (/\ lastCall'.data # <<>>
           /\ lastCall'.pos + Len(lastCall'.data) >
                tracks[lastCall'.dst].total_length) =>
            ExtendedByOne(lastCall'.dst, lastCall'.data, lastCall'.pos)
       /\ (lastCall'.data = <<>>) =>
            tracks'[lastCall'.dst].head = tracks[lastCall'.dst].head]_vars

\* a write past the end of a chain of two segments, leaving a gap of zeros
\* at the start of the third
C33_Witness ==
  /\ lastCall.op = "write" /\ lastCall.data # <<>>
  /\ lastCall.pre_segs = 2 /\ Len(tracks[lastCall.dst].head) = 3
  /\ lastCall.pos > lastCall.pre_len
  /\ tracks[lastCall.dst].head[3].length > Len(lastCall.data)

\* the segments of a chain that the range [pos, pos+len) covers whole
ConsumedBy(chain, pos, len) ==
  {i \in 1..Len(chain) :
     /\ chain[i].global_start >= pos
     /\ chain[i].global_start + chain[i].length <= pos + len}

\* two segments over the same window of the same buffer
SameWindow(n, m) ==
  n.data = m.data /\ n.offset = m.offset /\ n.length = m.length

\* C34: deletion never splits or merges.  A deleteRange that returns true
\* never adds a segment; the count drops by exactly the number of segments
\* the range covers whole; a range inside one segment that leaves some of it
\* keeps the count and shortens that segment by len; segments outside
\* [pos, pos+len) keep buffer, offset and length.
C34_NoSplitNoMerge ==
  [][(lastCall'.op = "deleteRange" /\ lastCall'.ok) =>
       LET old == tracks[lastCall'.dst].head
           new == tracks'[lastCall'.dst].head
           pos == lastCall'.pos
           len == lastCall'.len
           gone == Cardinality(ConsumedBy(old, pos, len))
       IN /\ Len(new) <= Len(old)
          /\ Len(new) = Len(old) - gone
          /\ \A i \in 1..Len(old) :
               /\ (old[i].global_start + old[i].length <= pos) =>
                    SameWindow(new[i], old[i])
               /\ (old[i].global_start >= pos + len) =>
                    SameWindow(new[i - gone], old[i])
               /\ (/\ old[i].global_start <= pos
                   /\ pos + len <= old[i].global_start + old[i].length
                   /\ len < old[i].length) =>
                    /\ Len(new) = Len(old)
                    /\ new[i].data = old[i].data
                    /\ new[i].offset = old[i].offset
                    /\ new[i].length = old[i].length - len]_vars

\* a deletion strictly inside the first segment of a longer chain: samples of
\* that segment remain on both sides of pos
C34_Witness ==
  /\ lastCall.op = "deleteRange" /\ lastCall.ok /\ lastCall.len >= 1
  /\ lastCall.pre_segs >= 2
  /\ Len(tracks[lastCall.dst].head) = lastCall.pre_segs
  /\ 0 < lastCall.pos
  /\ lastCall.pos < tracks[lastCall.dst].head[1].length

\* C35: split.  splitNode(segment, k) with 0 < k < segment.length links,
\* directly after the segment, a right segment on the same buffer with
\* offset + k, length - k and global_start + k, cuts the segment's length to
\* k and changes neither a sample nor the flattened content; with
\* k >= segment.length it returns no segment and changes nothing.
C35_Split ==
  [][(lastCall'.op = "splitNode" /\ lastCall'.node # NULL) =>
       LET t == lastCall'.dst
           old == tracks[t].head
           new == tracks'[t].head
           n == lastCall'.node
           k == lastCall'.len
       IN /\ (0 < k /\ k < old[n].length) =>
               /\ lastCall'.right = n + 1
               /\ Len(new) = Len(old) + 1
               /\ new[n] = [old[n] EXCEPT !.length = k]
               /\ new[n + 1].data = old[n].data
               /\ new[n + 1].offset = old[n].offset + k
               /\ new[n + 1].length = old[n].length - k
               /\ new[n + 1].global_start = old[n].global_start + k
               /\ \A i \in 1..(n - 1) : new[i] = old[i]
               /\ \A i \in (n + 1)..Len(old) : new[i + 1] = old[i]
               /\ bufs' = bufs
               /\ ContentAfter(t) = Content(t)
               /\ tracks'[t].total_length = tracks[t].total_length
          /\ (k >= old[n].length) =>
               /\ lastCall'.right = NULL
               /\ tracks' = tracks /\ bufs' = bufs]_vars

\* a split of the second of at least three segments, one sample to the left
C35_Witness ==
  /\ lastCall.op = "splitNode" /\ lastCall.ok
  /\ lastCall.node = 2 /\ lastCall.right = 3 /\ lastCall.len = 1
  /\ lastCall.pre_segs >= 3
  /\ Len(tracks[lastCall.dst].head) = lastCall.pre_segs + 1

\* the positions looked up: every position of the longest track and two
\* past its end
LookupPositions == 0..(MaxLen + 1)

\* C36: position lookup.  In every state a call can be made in,
\* findSegmentAt(pos) returns no segment exactly when pos >= total_length,
\* and otherwise the one segment with
\* global_start <= pos < global_start + length, with
\* local_offset = pos - global_start.
C36_PositionLookup ==
  ~crashed =>
  \A t \in Tracks, pos \in LookupPositions :
    LET chain == tracks[t].head
        found == findSegmentAt(tracks[t], pos)
        holding == {i \in 1..Len(chain) :
                      /\ chain[i].global_start <= pos
                      /\ pos < chain[i].global_start + chain[i].length}
    IN /\ (found.node = NULL) <=> (pos >= tracks[t].total_length)
       /\ (pos < tracks[t].total_length) =>
            /\ holding = {found.node}
            /\ found.local_offset = pos - chain[found.node].global_start

\* a lookup that passes two segments and lands inside the third, after a
\* deletion has moved the segments' global_start values
C36_Witness ==
  /\ lastCall.op = "deleteRange" /\ lastCall.ok /\ lastCall.len >= 1
  /\ \E t \in Tracks, pos \in LookupPositions :
       /\ t = lastCall.dst
       /\ findSegmentAt(tracks[t], pos).node = 3
       /\ findSegmentAt(tracks[t], pos).local_offset = 0
       /\ pos < lastCall.pre_len - 1

====
